---- MODULE Spec2Model ----
(***************************************************************************)
(* Model of the service worker in src/validate-performance.js: the        *)
(* versioned cache namespaces, the install / activate lifecycle, the       *)
(* strategy router, the five strategy executors and the expiry sweep.      *)
(***************************************************************************)
EXTENDS Integers, Sequences, FiniteSets, TLC

(***************************************************************************)
(* Bounds of the model                                                     *)
(***************************************************************************)
MaxInFlight == 1        \* fetch events handled concurrently
MaxVersion == 2         \* content versions the origin publishes
MaxTicks == 1           \* clock advances
MaxSweepEntries == 3    \* entries of the dynamic namespace when a lone sweep starts
MaxIncarnations == 2    \* worker incarnations (install runs once in each)
MaxRefreshes == 2       \* staleWhileRevalidate requests handled concurrently
MaxPushes == 2          \* push events delivered to the worker
MaxRequests == 4        \* requests the page puts on the network
MaxActivity == 2        \* events and fetches the page itself starts
MaxElapses == 2         \* times the page's clock is advanced

(***************************************************************************)
(* Program constants                                                       *)
(***************************************************************************)
CACHE_NAME == "mcp-docs-v1"
STATIC_CACHE == "mcp-static-v1"
DYNAMIC_CACHE == "mcp-dynamic-v1"

\* origin the worker is served from: root-relative URLs resolve against it
Origin == "https://docs.example"

STATIC_ASSETS ==
    << "/",
       "/index.html",
       "/performance-monitor.js",
       "https://cdn.tailwindcss.com",
       "https://fonts.googleapis.com/css2?family=Crimson+Text:ital,wght@0,400;0,600;1,400&family=Inter:wght@300;400;500;600;700&display=swap",
       "https://cdnjs.cloudflare.com/ajax/libs/font-awesome/6.4.0/css/all.min.css",
       "https://cdn.jsdelivr.net/npm/mermaid@10.6.1/dist/mermaid.min.js",
       "https://cdnjs.cloudflare.com/ajax/libs/hammer.js/2.0.8/hammer.min.js" >>

\* 7 * 24 * 60 * 60 * 1000 milliseconds
OneWeekMs == 7 * 24 * 60 * 60 * 1000

(***************************************************************************)
(* Strings and URLs                                                        *)
(***************************************************************************)
StartsWith(s, p) == Len(s) >= Len(p) /\ SubSeq(s, 1, Len(p)) = p

EndsWith(s, p) == Len(s) >= Len(p) /\ SubSeq(s, Len(s) - Len(p) + 1, Len(s)) = p

Includes(s, p) == \E i \in 1..(Len(s) - Len(p) + 1) : SubSeq(s, i, i + Len(p) - 1) = p

\* least index >= from at which p occurs in s, 0 when it does not occur
IndexFrom(s, p, from) ==
    LET hits == {i \in from..(Len(s) - Len(p) + 1) : SubSeq(s, i, i + Len(p) - 1) = p}
    IN IF hits = {} THEN 0 ELSE CHOOSE i \in hits : \A j \in hits : i <= j

\* new URL(u): href of an absolute URL; an empty path becomes "/"
ParseUrl(u) ==
    LET sep == IndexFrom(u, "://", 1)
        hostStart == sep + 3
        slash == IndexFrom(u, "/", hostStart)
        query == IndexFrom(u, "?", hostStart)
        hostEnd == IF slash # 0 /\ (query = 0 \/ slash < query) THEN slash - 1
                   ELSE IF query # 0 THEN query - 1 ELSE Len(u)
        pathEnd == IF query # 0 THEN query - 1 ELSE Len(u)
        rawPath == IF slash # 0 /\ (query = 0 \/ slash < query)
                   THEN SubSeq(u, slash, pathEnd) ELSE ""
        path == IF rawPath = "" THEN "/" ELSE rawPath
        search == IF query # 0 THEN SubSeq(u, query, Len(u)) ELSE ""
    IN [ protocol |-> SubSeq(u, 1, sep),
         hostname |-> SubSeq(u, hostStart, hostEnd),
         pathname |-> path,
         search   |-> search,
         href     |-> SubSeq(u, 1, hostEnd) \o path \o search ]

\* new Request(u) in the worker: a root-relative URL resolves against Origin
RequestUrl(u) == ParseUrl(IF StartsWith(u, "/") THEN Origin \o u ELSE u).href

ManifestKeys == {RequestUrl(STATIC_ASSETS[i]) : i \in 1..Len(STATIC_ASSETS)}

\* String.prototype.toLowerCase on the letters A-Z (the /i flag of the regex)
LowerChar(c) ==
    CASE c = "A" -> "a" [] c = "B" -> "b" [] c = "C" -> "c" [] c = "D" -> "d"
      [] c = "E" -> "e" [] c = "F" -> "f" [] c = "G" -> "g" [] c = "H" -> "h"
      [] c = "I" -> "i" [] c = "J" -> "j" [] c = "K" -> "k" [] c = "L" -> "l"
      [] c = "M" -> "m" [] c = "N" -> "n" [] c = "O" -> "o" [] c = "P" -> "p"
      [] c = "Q" -> "q" [] c = "R" -> "r" [] c = "S" -> "s" [] c = "T" -> "t"
      [] c = "U" -> "u" [] c = "V" -> "v" [] c = "W" -> "w" [] c = "X" -> "x"
      [] c = "Y" -> "y" [] c = "Z" -> "z" [] OTHER -> c

RECURSIVE Lower(_)
Lower(s) == IF s = "" THEN "" ELSE LowerChar(SubSeq(s, 1, 1)) \o Lower(SubSeq(s, 2, Len(s)))

StaticExtensions == {"css", "js", "png", "jpg", "jpeg", "gif", "svg", "woff", "woff2", "ttf", "eot"}

\* pathname.match(/\.(css|js|png|jpg|jpeg|gif|svg|woff|woff2|ttf|eot)$/i)
MatchesStaticExtension(pathname) ==
    \E e \in StaticExtensions : EndsWith(Lower(pathname), "." \o e)

(***************************************************************************)
(* Requests.  accept = "" stands for a request without an accept header.   *)
(***************************************************************************)
Req(method, url, accept) == [method |-> method, url |-> url, accept |-> accept]

Requests ==
    { Req("GET", Origin \o "/", ""),
      Req("GET", Origin \o "/", "application/json"),
      Req("GET", Origin \o "/performance-monitor.js", ""),
      Req("GET", Origin \o "/api/items", ""),
      Req("GET", "https://www.google-analytics.com/collect", ""),
      Req("POST", Origin \o "/api/items", ""),
      Req("GET", "chrome-extension://abcdef/page.js", "") }

\* the requests the router is probed with: every combination of a method, a
\* scheme, a host, a path and an accept header from these sets
RouterMethods == {"GET", "POST"}

RouterSchemes == {"https://", "http://", "chrome-extension://"}

RouterHosts ==
    { "docs.example", "www.google-analytics.com", "www.googletagmanager.com",
      "fonts.googleapis.com", "fonts.gstatic.com", "cdnjs.cloudflare.com" }

RouterPaths ==
    { "/", "/guide", "/analytics/track.js", "/api/app.js", "/data.json", "/config.json.js",
      "/API/items", "/styles.CSS" }

RouterAccepts == {"", "text/html", "text/html, application/json;q=0.9"}

RouterInputs ==
    [ method : RouterMethods, scheme : RouterSchemes, host : RouterHosts,
      path : RouterPaths, accept : RouterAccepts ]

\* the request event.request is for an input: its url is the serialised URL
RouterReq(in) == Req(in.method, in.scheme \o in.host \o in.path, in.accept)

RouterRequests == {RouterReq(in) : in \in RouterInputs}

\* requests for one URL that differ in the Accept header, so that the classifier
\* sends them to different executors, and a request for the URL with a query
SharedUrl == Origin \o "/performance-monitor.js"

SharedRequests ==
    { Req("GET", SharedUrl, ""),
      Req("GET", SharedUrl, "application/json"),
      Req("GET", SharedUrl \o "?v=2", "") }

\* the Cache API matches a GET request by its URL, query included
KeyOf(request) == ParseUrl(request.url).href

\* variant: static assets are served from the cache alone
getCacheStrategyStaticOffline(request) ==
    LET url == ParseUrl(request.url)
        pathname == url.pathname
        hostname == url.hostname
    IN IF \/ Includes(hostname, "google-analytics.com")
          \/ Includes(hostname, "googletagmanager.com")
          \/ Includes(pathname, "/analytics/")
       THEN "networkOnly"
       ELSE IF \/ Includes(pathname, "/api/")
               \/ Includes(pathname, ".json")
               \/ Includes(request.accept, "application/json")
       THEN "networkFirst"
       ELSE IF \/ MatchesStaticExtension(pathname)
               \/ Includes(hostname, "fonts.googleapis.com")
               \/ Includes(hostname, "fonts.gstatic.com")
               \/ Includes(hostname, "cdnjs.cloudflare.com")
       THEN "cacheOnly"
       ELSE "staleWhileRevalidate"

\* variant: the API rule is tested before the analytics rule
getCacheStrategyApiFirst(request) ==
    LET url == ParseUrl(request.url)
        pathname == url.pathname
        hostname == url.hostname
    IN IF \/ Includes(pathname, "/api/")
          \/ Includes(pathname, ".json")
          \/ Includes(request.accept, "application/json")
       THEN "networkFirst"
       ELSE IF \/ Includes(hostname, "google-analytics.com")
               \/ Includes(hostname, "googletagmanager.com")
               \/ Includes(pathname, "/analytics/")
       THEN "networkOnly"
       ELSE IF \/ MatchesStaticExtension(pathname)
               \/ Includes(hostname, "fonts.googleapis.com")
               \/ Includes(hostname, "fonts.gstatic.com")
               \/ Includes(hostname, "cdnjs.cloudflare.com")
       THEN "cacheFirst"
       ELSE "staleWhileRevalidate"

getCacheStrategy(request) ==
    LET url == ParseUrl(request.url)
        pathname == url.pathname
        hostname == url.hostname
    IN IF \/ Includes(hostname, "google-analytics.com")
          \/ Includes(hostname, "googletagmanager.com")
          \/ Includes(pathname, "/analytics/")
       THEN "networkOnly"
       ELSE IF \/ Includes(pathname, "/api/")
               \/ Includes(pathname, ".json")
               \/ Includes(request.accept, "application/json")
       THEN "networkFirst"
       ELSE IF \/ MatchesStaticExtension(pathname)
               \/ Includes(hostname, "fonts.googleapis.com")
               \/ Includes(hostname, "fonts.gstatic.com")
               \/ Includes(hostname, "cdnjs.cloudflare.com")
       THEN "cacheFirst"
       ELSE "staleWhileRevalidate"

(***************************************************************************)
(* Responses.  date is the Date header in whole seconds, NoDate when the   *)
(* response carries none.                                                  *)
(***************************************************************************)
NoDate == -1

Response(status, body, date) == [status |-> status, body |-> body, date |-> date]

\* Response.ok
Ok(response) == response.status >= 200 /\ response.status <= 299

\* new Response('Offline', { status: 503 })
Offline == Response(503, "Offline", NoDate)

\* new Response('Not found in cache', { status: 404 })
NotFound == Response(404, "Not found in cache", NoDate)

\* placeholder of a response variable that holds nothing (undefined / null)
None == Response(0, "", NoDate)

NetworkStatuses == {200, 404}

\* the Date header the origin stamps at clock time t (milliseconds)
DateHeader(t) == t \div 1000

\* new Date(dateHeader).getTime()
DateMs(date) == date * 1000

\* the body the origin serves at version v
Body(v) == "v" \o ToString(v)

\* what the origin can answer at version v and clock time t
NetworkResponses(v, t, nodate) ==
    { Response(st, Body(v), IF nodate THEN NoDate ELSE DateHeader(t)) : st \in NetworkStatuses }

(***************************************************************************)
(* Cache storage: the namespaces in creation order, each holding its       *)
(* entries in insertion order.                                             *)
(***************************************************************************)
Entry(key, response) == [key |-> key, response |-> response]

Namespace(name, entries) == [name |-> name, entries |-> entries]

Names(storage) == {storage[i].name : i \in 1..Len(storage)}

Keys(entries) == {entries[i].key : i \in 1..Len(entries)}

RemoveKey(entries, key) == SelectSeq(entries, LAMBDA e : e.key # key)

\* cache.match(request) on one namespace's entries
Lookup(entries, key) ==
    IF key \in Keys(entries)
    THEN (CHOOSE e \in {entries[i] : i \in 1..Len(entries)} : e.key = key).response
    ELSE None

EntriesOf(storage, name) ==
    IF name \in Names(storage)
    THEN (CHOOSE n \in {storage[i] : i \in 1..Len(storage)} : n.name = name).entries
    ELSE << >>

\* caches.open(name): creates the namespace when it does not exist
Open(storage, name) ==
    IF name \in Names(storage) THEN storage ELSE Append(storage, Namespace(name, << >>))

\* variant: the entry is added next to any entry of the same key
PutAppending(storage, name, key, response) ==
    [i \in 1..Len(storage) |->
        IF storage[i].name = name
        THEN Namespace(name, Append(storage[i].entries, Entry(key, response)))
        ELSE storage[i]]

\* variant: an entry already held for the key is kept
PutIfAbsent(storage, name, key, response) ==
    [i \in 1..Len(storage) |->
        IF storage[i].name = name /\ key \notin Keys(storage[i].entries)
        THEN Namespace(name, Append(storage[i].entries, Entry(key, response)))
        ELSE storage[i]]

\* cache.put(request, response): the entry replaces any entry of the same key
Put(storage, name, key, response) ==
    [i \in 1..Len(storage) |->
        IF storage[i].name = name
        THEN Namespace(name, Append(RemoveKey(storage[i].entries, key), Entry(key, response)))
        ELSE storage[i]]

\* variant: the entry is deleted from every namespace
DeleteEntryEverywhere(storage, name, key) ==
    [i \in 1..Len(storage) |-> Namespace(storage[i].name, RemoveKey(storage[i].entries, key))]

\* cache.delete(request)
DeleteEntry(storage, name, key) ==
    [i \in 1..Len(storage) |->
        IF storage[i].name = name
        THEN Namespace(name, RemoveKey(storage[i].entries, key))
        ELSE storage[i]]

\* caches.delete(name)
DeleteNamespace(storage, name) == SelectSeq(storage, LAMBDA n : n.name # name)

\* variant: the lookup consults the dynamic namespace only
MatchDynamicOnly(storage, key) == Lookup(EntriesOf(storage, DYNAMIC_CACHE), key)

\* caches.match(request): the first namespace, in creation order, holding the key
RECURSIVE MatchAll(_, _)
MatchAll(storage, key) ==
    IF storage = << >> THEN None
    ELSE IF key \in Keys(Head(storage).entries) THEN Lookup(Head(storage).entries, key)
    ELSE MatchAll(Tail(storage), key)

(***************************************************************************)
(* State                                                                   *)
(***************************************************************************)
VARIABLES
    phase,          \* lifecycle of the worker: parsed, installing, installed, activating, activated
    incarnation,    \* number of the running worker incarnation
    addAllResult,   \* how cache.addAll settled in this incarnation: none, stored, failed
    installReport,  \* how the promise given to the install event's waitUntil settled
    skipWaiting,    \* self.skipWaiting() was called in this incarnation
    caches,         \* the cache storage
    cacheNames,     \* activate: the names caches.keys() returned
    deleting,       \* activate: names whose caches.delete is in flight
    now,            \* the clock, in milliseconds
    ticks,          \* number of clock advances so far
    originVersion,  \* version of the content the origin serves
    dateless,       \* the origin's responses carry no Date header
    varies,         \* the origin's responses carry the header Vary: Accept
    offered,        \* the request descriptors the clients issue
    slots,          \* the requests being handled, one record per concurrent fetch event
    okLog,          \* history: per request descriptor, whether the put of a 2xx answer took effect
    sweep,          \* the expiry sweep: its position and local variables
    installs,       \* history: how cache.addAll settled in each incarnation so far
    notifications,  \* the notifications the host displays, in display order
    pushLog,        \* history: the push payloads received and how the listener ended on each
    opened,         \* history: the windows opened by notification clicks
    monitor         \* the page's PerformanceMonitor: memory cache, persisted events, fetches in flight

vars == << phase, incarnation, addAllResult, installReport, skipWaiting, caches, cacheNames,
           deleting, now, ticks, originVersion, dateless, varies, offered, slots, okLog,
           sweep, installs, notifications, pushLog, opened, monitor >>

lifecycleVars == << phase, incarnation, addAllResult, installReport, skipWaiting, cacheNames, deleting >>

\* what the push and notificationclick listeners work on
hostVars == << notifications, pushLog, opened >>

worldVars == << now, ticks, originVersion, dateless, varies, offered, installs, hostVars, monitor >>

\* the fetch events the worker can handle at once
SlotIds == DOMAIN slots

IdleSlot ==
    [ pc |-> "idle", request |-> Req("", "", ""), key |-> "", strategy |-> "none",
      cachedResponse |-> None, networkResponse |-> None,
      answer |-> "none", response |-> None,
      fetched |-> FALSE, read |-> FALSE, put |-> "none", prior |-> "none" ]

\* tag is the tag of the last periodicsync event
IdleSweep ==
    [ pc |-> "idle", requests |-> << >>, oneWeekAgo |-> 0, before |-> << >>, ran |-> FALSE,
      tag |-> "none" ]

\* variant: the method of the request is not looked at
InterceptedAnyMethod(request) == StartsWith(request.url, "http")

\* the two early returns of the fetch listener
Intercepted(request) == request.method = "GET" /\ StartsWith(request.url, "http")

\* request descriptors whose stored 2xx answers the history follows
Logged ==
    {r \in Requests : Intercepted(r) /\ getCacheStrategy(r) \in {"cacheFirst", "networkFirst"}}

\* cache storage a new worker can find: nothing, or the namespaces of an older generation
OldEntry == Entry(Origin \o "/", Response(200, "v0", NoDate))

InitialStores ==
    { << >>,
      << Namespace(CACHE_NAME, << OldEntry >>) >>,
      << Namespace("mcp-static-v0", << OldEntry >>), Namespace("mcp-dynamic-v0", << >>) >>,
      << Namespace("mcp-static-v0", << >>), Namespace(DYNAMIC_CACHE, << OldEntry >>) >> }

\* the monitor of a page that has just been constructed: whether the page set
\* window.ANALYTICS_ENDPOINT, an empty memoryCache, the list persisted under
\* 'performance_events', the fetches awaiting originalFetch, and counters of what has
\* happened so far (tracked numbers the events in arrival order, across page loads;
\* last is the history of how the page's latest call of window.fetch was answered)
MonitorOf(endpoint, events) ==
    [ endpoint |-> endpoint, memoryCache |-> {}, events |-> events, pending |-> {},
      requests |-> 0, tracked |-> Len(events), activity |-> 0, cacheHits |-> 0, cacheMisses |-> 0,
      last |-> [kind |-> "none", key |-> "", n |-> 0] ]

IdleMonitor == MonitorOf(FALSE, << >>)

Init ==
    /\ phase = "parsed"
    /\ incarnation = 1
    /\ addAllResult = "none"
    /\ installReport = "none"
    /\ skipWaiting = FALSE
    /\ caches \in InitialStores
    /\ cacheNames = << >>
    /\ deleting = {}
    /\ now = 0
    /\ ticks = 0
    /\ originVersion = 1
    /\ dateless \in BOOLEAN
    /\ varies = FALSE
    /\ offered = Requests
    /\ slots = [i \in 1..MaxInFlight |-> IdleSlot]
    /\ okLog = [r \in Logged |-> "none"]
    /\ sweep = IdleSweep
    /\ installs = << >>
    /\ notifications = << >>
    /\ pushLog = << >>
    /\ opened = << >>
    /\ monitor = IdleMonitor

(***************************************************************************)
(* Install                                                                 *)
(***************************************************************************)
\* caches.open(STATIC_CACHE) of the install listener
InstallOpen ==
    /\ phase = "parsed"
    /\ phase' = "installing"
    /\ caches' = Open(caches, STATIC_CACHE)
    /\ UNCHANGED << incarnation, addAllResult, installReport, skipWaiting, cacheNames, deleting,
                    worldVars, slots, okLog, sweep >>

\* the URL of the request addAll builds from a string of the manifest, evaluated
\* once per string
ManifestUrl ==
    [url \in {STATIC_ASSETS[k] : k \in 1..Len(STATIC_ASSETS)} |-> RequestUrl(url)]

\* what the cache matches the request addAll builds from a manifest URL by: its
\* URL, and its Accept header (the default one) when the stored responses carry
\* Vary: Accept
ManifestKey(url) == IF varies THEN ManifestUrl[url] \o " accept=" ELSE ManifestUrl[url]

RECURSIVE PutAll(_, _, _, _)
PutAll(storage, name, urls, response) ==
    IF urls = << >> THEN storage
    ELSE PutAll(Put(storage, name, ManifestKey(Head(urls)), response), name, Tail(urls), response)

\* variant: the URLs are added one after the other up to the first failing one
AddAllUntilFailure(storage, name, urls, response, failing) ==
    IF failing = {} THEN PutAll(storage, name, urls, response)
    ELSE LET first == CHOOSE i \in failing : \A j \in failing : i <= j
         IN PutAll(storage, name, SubSeq(urls, 1, first - 1), response)

\* cache.addAll(urls): every URL is fetched; when one fetch fails or answers
\* non-2xx nothing is stored and the promise rejects
AddAll(storage, name, urls, response, failing) ==
    IF failing = {} THEN PutAll(storage, name, urls, response) ELSE storage

\* settlement of the promise chain passed to event.waitUntil: .then(skipWaiting) on
\* success, .catch(log) on failure; the catch handler returns normally
InstallSettles(addAllOk) == "fulfilled"

InstallAddAll ==
    /\ phase = "installing"
    /\ \E failing \in SUBSET (1..Len(STATIC_ASSETS)) :
          LET response == Response(200, Body(originVersion),
                                   IF dateless THEN NoDate ELSE DateHeader(now))
          IN /\ caches' = AddAll(caches, STATIC_CACHE, STATIC_ASSETS, response, failing)
             /\ addAllResult' = IF failing = {} THEN "stored" ELSE "failed"
             /\ skipWaiting' = (failing = {})
             /\ installReport' = InstallSettles(failing = {})
             /\ installs' = Append(installs, IF failing = {} THEN "stored" ELSE "failed")
    /\ phase' = "installed"
    /\ UNCHANGED << incarnation, cacheNames, deleting, now, ticks, originVersion, dateless,
                    varies, offered, hostVars, slots, okLog, sweep, monitor >>

(***************************************************************************)
(* Activate.  The host activates a worker only when its install promise    *)
(* was fulfilled.                                                          *)
(***************************************************************************)
NamesInOrder(storage) == [i \in 1..Len(storage) |-> storage[i].name]

\* variant: only the static namespace is spared
IsNotStaticCache(cacheName) == cacheName # STATIC_CACHE

\* variant: only the namespace of the unversioned generation counts as old
IsLegacyCache(cacheName) == cacheName = CACHE_NAME

\* the test of the activate listener: is this namespace an old one
IsOldCache(cacheName) == cacheName # STATIC_CACHE /\ cacheName # DYNAMIC_CACHE

\* variant: the host does not wait for the install to settle
ActivateKeysEarly ==
    /\ phase \in {"installing", "installed"}
    /\ phase' = "activating"
    /\ cacheNames' = NamesInOrder(caches)
    /\ deleting' = {n \in Names(caches) : IsOldCache(n)}
    /\ UNCHANGED << incarnation, addAllResult, installReport, skipWaiting, caches,
                    worldVars, slots, okLog, sweep >>

\* caches.keys() resolves and caches.delete is called for every old name
ActivateKeys ==
    /\ phase = "installed"
    /\ installReport = "fulfilled"
    /\ phase' = "activating"
    /\ cacheNames' = NamesInOrder(caches)
    /\ deleting' = {n \in Names(caches) : IsOldCache(n)}
    /\ UNCHANGED << incarnation, addAllResult, installReport, skipWaiting, caches,
                    worldVars, slots, okLog, sweep >>

\* one caches.delete(cacheName) takes effect
ActivateDelete ==
    /\ phase = "activating"
    /\ \E n \in deleting :
          /\ caches' = DeleteNamespace(caches, n)
          /\ deleting' = deleting \ {n}
    /\ UNCHANGED << phase, incarnation, addAllResult, installReport, skipWaiting, cacheNames,
                    worldVars, slots, okLog, sweep >>

\* Promise.all resolved: self.clients.claim()
ActivateClaim ==
    /\ phase = "activating"
    /\ deleting = {}
    /\ phase' = "activated"
    /\ UNCHANGED << incarnation, addAllResult, installReport, skipWaiting, caches, cacheNames,
                    deleting, worldVars, slots, okLog, sweep >>

(***************************************************************************)
(* The fetch listener and the strategy executors.  A slot follows one      *)
(* fetch event: pc is the await its executor is suspended at, answer is    *)
(* what the event's respondWith promise has settled to.                    *)
(***************************************************************************)
Free(slot) == slot.pc \in {"idle", "done"} /\ slot.put # "pending"

\* the slots after slot i has become `slot`.  The record of a finished request is
\* kept until another request finishes or a new fetch event arrives.
Keep(i, slot) ==
    [j \in SlotIds |->
        IF j = i THEN slot
        ELSE IF Free(slot) /\ Free(slots[j]) THEN IdleSlot ELSE slots[j]]

Arrive(i, slot) ==
    [j \in SlotIds |-> IF j = i THEN slot ELSE IF Free(slots[j]) THEN IdleSlot ELSE slots[j]]

\* the executor the switch of the fetch listener calls, up to its first await
\* the listener's reading of the offered requests, evaluated once per descriptor
InterceptedOf == [r \in Requests \cup RouterRequests \cup SharedRequests |-> Intercepted(r)]

StrategyOf == [r \in Requests \cup RouterRequests \cup SharedRequests |-> getCacheStrategy(r)]

KeyOfRequest == [r \in Requests \cup RouterRequests \cup SharedRequests |-> KeyOf(r)]

\* what cache.match and cache.put match a request by: the URL, and the Accept
\* header too when the stored responses carry Vary: Accept (no ignoreVary option
\* is passed)
MatchKey(request) ==
    IF varies THEN KeyOfRequest[request] \o " accept=" \o request.accept
    ELSE KeyOfRequest[request]

Dispatch(request, strategy, prior) ==
    [ IdleSlot EXCEPT
        !.request = request,
        !.key = MatchKey(request),
        !.strategy = strategy,
        !.prior = prior,
        !.pc = CASE strategy = "cacheFirst" -> "cf_match"
                 [] strategy = "networkFirst" -> "nf_fetch"
                 [] strategy = "cacheOnly" -> "co_match"
                 [] strategy = "networkOnly" -> "no_fetch"
                 [] OTHER -> "swr_open",
        !.fetched = (strategy \in {"networkFirst", "networkOnly"}) ]

PassThrough(request) ==
    [ IdleSlot EXCEPT !.request = request, !.pc = "done", !.answer = "passthrough" ]

\* variant: the classifier looks at the cache, and serves a request whose key some
\* namespace holds with cacheFirst
FetchEventCacheAware(i, request) ==
    /\ phase = "activated"
    /\ Free(slots[i])
    /\ \A j \in SlotIds : j < i => ~Free(slots[j])
    /\ request \in offered
    /\ slots' = Arrive(i, IF InterceptedOf[request]
                              THEN Dispatch(request,
                                            IF MatchAll(caches, MatchKey(request)) # None
                                            THEN "cacheFirst" ELSE StrategyOf[request],
                                            IF request \in DOMAIN okLog THEN okLog[request]
                                            ELSE "none")
                              ELSE PassThrough(request))
    /\ UNCHANGED << lifecycleVars, caches, worldVars, okLog, sweep >>

FetchEvent(i, request) ==
    /\ phase = "activated"
    /\ Free(slots[i])
    /\ \A j \in SlotIds : j < i => ~Free(slots[j])
    /\ request \in offered
    /\ slots' = Arrive(i, IF InterceptedOf[request]
                              THEN Dispatch(request, StrategyOf[request],
                                            IF request \in DOMAIN okLog THEN okLog[request]
                                            ELSE "none")
                              ELSE PassThrough(request))
    /\ UNCHANGED << lifecycleVars, caches, worldVars, okLog, sweep >>

Answered(slot, kind, response) ==
    [ slot EXCEPT !.pc = "done", !.answer = kind, !.response = response ]

\* ---- cacheFirst ----
\* const cachedResponse = await caches.match(request); a miss goes on to fetch(request)
CacheFirstMatch(i) ==
    /\ slots[i].pc = "cf_match"
    /\ LET cachedResponse == MatchAll(caches, slots[i].key)
           slot == [slots[i] EXCEPT !.read = TRUE, !.cachedResponse = cachedResponse]
       IN slots' = Keep(i, IF cachedResponse # None
                           THEN Answered(slot, "cached", cachedResponse)
                           ELSE [slot EXCEPT !.pc = "cf_fetch", !.fetched = TRUE])
    /\ UNCHANGED << lifecycleVars, caches, worldVars, okLog, sweep >>

\* await fetch(request) settles: a response, or a rejection caught by the catch block
CacheFirstSettle(i) ==
    /\ slots[i].pc = "cf_fetch"
    /\ \/ slots' = Keep(i, Answered(slots[i], "sentinel", Offline))
       \/ \E networkResponse \in NetworkResponses(originVersion, now, dateless) :
             LET slot == [slots[i] EXCEPT !.networkResponse = networkResponse]
             IN slots' = Keep(i, IF Ok(networkResponse)
                                 THEN [slot EXCEPT !.pc = "cf_open"]
                                 ELSE Answered(slot, "network", networkResponse))
    /\ UNCHANGED << lifecycleVars, caches, worldVars, okLog, sweep >>

\* the namespace cacheFirst writes through to
CacheFirstTarget == STATIC_CACHE

\* await caches.open(STATIC_CACHE); cache.put(...) is started, not awaited; return networkResponse
CacheFirstStore(i) ==
    /\ slots[i].pc = "cf_open"
    /\ caches' = Open(caches, CacheFirstTarget)
    /\ slots' = Keep(i, Answered([slots[i] EXCEPT !.put = "pending"], "network",
                                  slots[i].networkResponse))
    /\ UNCHANGED << lifecycleVars, worldVars, okLog, sweep >>

\* ---- networkFirst ----
\* variant: the response is written through whatever its status
NetworkFirstSettleAnyStatus(i) ==
    /\ slots[i].pc = "nf_fetch"
    /\ \/ slots' = [slots EXCEPT ![i].pc = "nf_match"]
       \/ \E networkResponse \in NetworkResponses(originVersion, now, dateless) :
             slots' = Keep(i, [slots[i] EXCEPT !.networkResponse = networkResponse,
                                               !.pc = "nf_open"])
    /\ UNCHANGED << lifecycleVars, caches, worldVars, okLog, sweep >>

\* variant: a non-2xx response sends networkFirst to the cache like a failed fetch
NetworkFirstSettleOrFallBack(i) ==
    /\ slots[i].pc = "nf_fetch"
    /\ \/ slots' = [slots EXCEPT ![i].pc = "nf_match"]
       \/ \E networkResponse \in NetworkResponses(originVersion, now, dateless) :
             LET slot == [slots[i] EXCEPT !.networkResponse = networkResponse]
             IN slots' = Keep(i, IF Ok(networkResponse)
                                 THEN [slot EXCEPT !.pc = "nf_open"]
                                 ELSE [slot EXCEPT !.pc = "nf_match"])
    /\ UNCHANGED << lifecycleVars, caches, worldVars, okLog, sweep >>

\* const networkResponse = await fetch(request) settles; a rejection enters the catch block
NetworkFirstSettle(i) ==
    /\ slots[i].pc = "nf_fetch"
    /\ \/ slots' = [slots EXCEPT ![i].pc = "nf_match"]
       \/ \E networkResponse \in NetworkResponses(originVersion, now, dateless) :
             LET slot == [slots[i] EXCEPT !.networkResponse = networkResponse]
             IN slots' = Keep(i, IF Ok(networkResponse)
                                 THEN [slot EXCEPT !.pc = "nf_open"]
                                 ELSE Answered(slot, "network", networkResponse))
    /\ UNCHANGED << lifecycleVars, caches, worldVars, okLog, sweep >>

\* the namespace networkFirst writes through to
NetworkFirstTarget == DYNAMIC_CACHE

NetworkFirstStore(i) ==
    /\ slots[i].pc = "nf_open"
    /\ caches' = Open(caches, NetworkFirstTarget)
    /\ slots' = Keep(i, Answered([slots[i] EXCEPT !.put = "pending"], "network",
                                  slots[i].networkResponse))
    /\ UNCHANGED << lifecycleVars, worldVars, okLog, sweep >>

\* variant: the catch block gives up without consulting the cache
NetworkFirstGivesUp(slot, cachedResponse) == Answered(slot, "sentinel", Offline)

\* the result of the catch block: the cached response, or the 503 sentinel
NetworkFirstFallback(slot, cachedResponse) ==
    IF cachedResponse # None
    THEN Answered(slot, "cached", cachedResponse)
    ELSE Answered(slot, "sentinel", Offline)

\* catch block: const cachedResponse = await caches.match(request)
NetworkFirstMatch(i) ==
    /\ slots[i].pc = "nf_match"
    /\ LET cachedResponse == MatchAll(caches, slots[i].key)
           slot == [slots[i] EXCEPT !.read = TRUE, !.cachedResponse = cachedResponse]
       IN slots' = Keep(i, NetworkFirstFallback(slot, cachedResponse))
    /\ UNCHANGED << lifecycleVars, caches, worldVars, okLog, sweep >>

\* ---- cacheOnly ----
\* variant: a miss is answered with the 503 sentinel of the other executors
CacheOnlyOrOffline(slot, cachedResponse) ==
    IF cachedResponse # None
    THEN Answered(slot, "cached", cachedResponse)
    ELSE Answered(slot, "sentinel", Offline)

\* cachedResponse || new Response('Not found in cache', { status: 404 })
CacheOnlyResult(slot, cachedResponse) ==
    IF cachedResponse # None
    THEN Answered(slot, "cached", cachedResponse)
    ELSE Answered(slot, "sentinel", NotFound)

CacheOnlyMatch(i) ==
    /\ slots[i].pc = "co_match"
    /\ LET cachedResponse == MatchAll(caches, slots[i].key)
           slot == [slots[i] EXCEPT !.read = TRUE, !.cachedResponse = cachedResponse]
       IN slots' = Keep(i, CacheOnlyResult(slot, cachedResponse))
    /\ UNCHANGED << lifecycleVars, caches, worldVars, okLog, sweep >>

\* ---- networkOnly ----
\* variant: a 2xx response is also put into the dynamic namespace
NetworkOnlyCaching(slot, settled, networkResponse) ==
    IF settled = "rejected"
    THEN Answered(slot, "rejected", None)
    ELSE Answered([slot EXCEPT !.networkResponse = networkResponse,
                               !.put = IF Ok(networkResponse) THEN "pending" ELSE "none"],
                  "network", networkResponse)

\* return fetch(request): the response, or the rejection, reaches the caller as it is
NetworkOnlyResult(slot, settled, networkResponse) ==
    IF settled = "rejected"
    THEN Answered(slot, "rejected", None)
    ELSE Answered([slot EXCEPT !.networkResponse = networkResponse], "network", networkResponse)

NetworkOnlySettle(i) ==
    /\ slots[i].pc = "no_fetch"
    /\ \/ slots' = Keep(i, NetworkOnlyResult(slots[i], "rejected", None))
       \/ \E networkResponse \in NetworkResponses(originVersion, now, dateless) :
             slots' = Keep(i, NetworkOnlyResult(slots[i], "resolved", networkResponse))
    /\ UNCHANGED << lifecycleVars, caches, worldVars, okLog, sweep >>

\* ---- staleWhileRevalidate ----
\* const cache = await caches.open(DYNAMIC_CACHE)
StaleOpen(i) ==
    /\ slots[i].pc = "swr_open"
    /\ caches' = Open(caches, DYNAMIC_CACHE)
    /\ slots' = [slots EXCEPT ![i].pc = "swr_match"]
    /\ UNCHANGED << lifecycleVars, worldVars, okLog, sweep >>

\* const cachedResponse = await cache.match(request); the refresh fetch(request) is
\* started; a cached response is returned at once, otherwise the caller waits for
\* networkResponsePromise
StaleMatch(i) ==
    /\ slots[i].pc = "swr_match"
    /\ LET cachedResponse == Lookup(EntriesOf(caches, DYNAMIC_CACHE), slots[i].key)
           slot == [slots[i] EXCEPT !.read = TRUE, !.cachedResponse = cachedResponse,
                                    !.fetched = TRUE, !.pc = "swr_fetch"]
       IN slots' = [slots EXCEPT ![i] =
                       IF cachedResponse # None
                       THEN [slot EXCEPT !.answer = "cached", !.response = cachedResponse]
                       ELSE slot]
    /\ UNCHANGED << lifecycleVars, caches, worldVars, okLog, sweep >>

\* variant: the caller is always answered with what the refresh settles to
StaleAwaitedAlways(slot, settled, networkResponse) ==
    IF settled = "rejected" THEN [slot EXCEPT !.answer = "null", !.response = None]
    ELSE [slot EXCEPT !.answer = "network", !.response = networkResponse]

\* what a caller still waiting gets once networkResponsePromise has settled:
\* networkResponsePromise || new Response('Offline', { status: 503 }); the promise
\* object is always truthy, so the caller gets what it resolves to, the response or
\* the null of the .catch handler
StaleAwaited(slot, settled, networkResponse) ==
    IF slot.answer # "none" THEN slot
    ELSE IF settled = "rejected" THEN [slot EXCEPT !.answer = "null", !.response = None]
    ELSE [slot EXCEPT !.answer = "network", !.response = networkResponse]

\* variant: the refresh is stored only when no cached response was returned
StaleRefreshedIfUnanswered(slot, networkResponse) ==
    [slot EXCEPT !.networkResponse = networkResponse,
                 !.put = IF Ok(networkResponse) /\ slot.answer = "none" THEN "pending" ELSE "none"]

\* the .then handler of the refresh: a 2xx response is put into the cache
StaleRefreshed(slot, networkResponse) ==
    [slot EXCEPT !.networkResponse = networkResponse,
                 !.put = IF Ok(networkResponse) THEN "pending" ELSE "none"]

\* fetch(request) of the refresh settles
StaleSettle(i) ==
    /\ slots[i].pc = "swr_fetch"
    /\ \/ slots' = Keep(i, [StaleAwaited(slots[i], "rejected", None) EXCEPT !.pc = "done"])
       \/ \E networkResponse \in NetworkResponses(originVersion, now, dateless) :
             slots' = Keep(i, [StaleAwaited(StaleRefreshed(slots[i], networkResponse),
                                            "resolved", networkResponse)
                                 EXCEPT !.pc = "done"])
    /\ UNCHANGED << lifecycleVars, caches, worldVars, okLog, sweep >>

\* ---- cache.put takes effect ----
\* variant: every executor writes through to the dynamic namespace
PutTargetDynamic(strategy) == DYNAMIC_CACHE

\* the namespace whose Cache object the executor called put on
PutTarget(strategy) ==
    CASE strategy = "cacheFirst" -> CacheFirstTarget
      [] strategy = "networkFirst" -> NetworkFirstTarget
      [] OTHER -> DYNAMIC_CACHE

Stored(log, request) ==
    IF request \in DOMAIN log THEN [log EXCEPT ![request] = "stored"] ELSE log

PutCommit(i) ==
    /\ slots[i].put = "pending"
    /\ caches' = Put(caches, PutTarget(slots[i].strategy), slots[i].key,
                     slots[i].networkResponse)
    /\ slots' = Keep(i, [slots[i] EXCEPT !.put = "stored"])
    /\ okLog' = Stored(okLog, slots[i].request)
    /\ UNCHANGED << lifecycleVars, worldVars, sweep >>

(***************************************************************************)
(* The expiry sweep (periodicsync with tag 'cache-cleanup')                *)
(***************************************************************************)
\* variant: a response captured exactly at the threshold counts as expired
ExpiredInclusive(response, oneWeekAgo) ==
    response.date # NoDate /\ DateMs(response.date) <= oneWeekAgo

\* variant: a response without a Date header counts as expired
ExpiredOrUndated(response, oneWeekAgo) ==
    response.date = NoDate \/ DateMs(response.date) < oneWeekAgo

\* the test of cleanupCaches on one response: does the sweep delete it
Expired(response, oneWeekAgo) ==
    response.date # NoDate /\ DateMs(response.date) < oneWeekAgo

CleanupTag == "cache-cleanup"

\* a periodicsync event with the tag 'cache-cleanup': caches.keys(),
\* caches.open(DYNAMIC_CACHE), dynamicCache.keys(), Date.now()
SweepStart ==
    /\ phase = "activated"
    /\ sweep.pc = "idle"
    /\ caches' = Open(caches, DYNAMIC_CACHE)
    /\ LET entries == EntriesOf(caches, DYNAMIC_CACHE)
       IN sweep' = [ pc |-> IF entries = << >> THEN "idle" ELSE "match",
                     requests |-> [k \in 1..Len(entries) |-> entries[k].key],
                     oneWeekAgo |-> now - OneWeekMs,
                     before |-> entries,
                     ran |-> TRUE,
                     tag |-> CleanupTag ]
    /\ UNCHANGED << lifecycleVars, worldVars, slots, okLog >>

SweepAdvance(sw) ==
    [sw EXCEPT !.requests = Tail(@), !.pc = IF Len(sw.requests) > 1 THEN "match" ELSE "idle"]

\* const response = await dynamicCache.match(request), the date test, and the call
\* of dynamicCache.delete(request) when the response is expired
SweepMatch ==
    /\ sweep.pc = "match"
    /\ LET response == Lookup(EntriesOf(caches, DYNAMIC_CACHE), Head(sweep.requests))
       IN sweep' = IF Expired(response, sweep.oneWeekAgo)
                   THEN [sweep EXCEPT !.pc = "delete"]
                   ELSE SweepAdvance(sweep)
    /\ UNCHANGED << lifecycleVars, caches, worldVars, slots, okLog >>

\* await dynamicCache.delete(request) takes effect
SweepDelete ==
    /\ sweep.pc = "delete"
    /\ caches' = DeleteEntry(caches, DYNAMIC_CACHE, Head(sweep.requests))
    /\ sweep' = SweepAdvance(sweep)
    /\ UNCHANGED << lifecycleVars, worldVars, slots, okLog >>

\* tags of the periodicsync events the host delivers
SyncTags == {CleanupTag, "content-sync"}

\* the periodicsync listener: cleanupCaches runs for the tag 'cache-cleanup', an
\* event with another tag is dropped
PeriodicSync(tag) ==
    IF tag = CleanupTag
    THEN SweepStart
    ELSE /\ phase = "activated"
         /\ sweep' = [sweep EXCEPT !.tag = tag]
         /\ UNCHANGED << lifecycleVars, caches, worldVars, slots, okLog >>

(***************************************************************************)
(* Background sync.  getStoredEvents returns the empty list, so            *)
(* doBackgroundSync sends nothing and clears nothing.                      *)
(***************************************************************************)
BackgroundSync ==
    /\ phase = "activated"
    /\ UNCHANGED vars

(***************************************************************************)
(* Push notifications.  event.data of a push event is absent, or carries   *)
(* bytes that are no JSON text, or the JSON value null, or a JSON object;  *)
(* a member the object lacks reads as undefined.                           *)
(***************************************************************************)
Undefined == "<undefined>"

PushObject(title, tag, requireInteraction, url) ==
    [ kind |-> "object", title |-> title, body |-> "text", tag |-> tag,
      requireInteraction |-> requireInteraction, url |-> url ]

NoPayload == [PushObject(Undefined, Undefined, Undefined, Undefined) EXCEPT !.kind = "none", !.body = Undefined]

TextPayload == [NoPayload EXCEPT !.kind = "text"]

NullPayload == [NoPayload EXCEPT !.kind = "null"]

PushPayloads ==
    {NoPayload, TextPayload, NullPayload}
        \cup {PushObject(title, tag, Undefined, url) :
                 title \in {Undefined, "Release"}, tag \in {Undefined, "news"},
                 url \in {Undefined, "/docs"}}
        \cup {PushObject("Release", "news", "true", "/docs")}

\* a || b on strings and undefined
OrElse(a, b) == IF a = Undefined \/ a = "" THEN b ELSE a

\* the notification showNotification(data.title, options) displays; options has no
\* data member, so notification.data is null; payload is the history of what
\* produced the notification
Notification(data) ==
    [ title |-> IF data.title = Undefined THEN "undefined" ELSE data.title,
      body |-> data.body,
      icon |-> "/icon-192x192.png",
      badge |-> "/badge-72x72.png",
      tag |-> OrElse(data.tag, "default"),
      requireInteraction |-> OrElse(data.requireInteraction, "false"),
      data |-> Undefined,
      payload |-> data ]

\* a notification replaces the displayed notification of the same tag
Show(shown, notification) ==
    Append(SelectSeq(shown, LAMBDA n : n.tag # notification.tag), notification)

\* how the push listener ends on a payload: it returns at once without event.data,
\* event.data.json() throws on bytes that are no JSON, reading data.body throws on
\* null, and otherwise the notification is shown
PushOutcome(payload) ==
    CASE payload.kind = "none" -> "ignored"
      [] payload.kind = "text" -> "threw"
      [] payload.kind = "null" -> "threw"
      [] OTHER -> "shown"

Push(payload) ==
    /\ phase = "activated"
    /\ Len(pushLog) < MaxPushes
    /\ pushLog' = Append(pushLog, [payload |-> payload, outcome |-> PushOutcome(payload)])
    /\ notifications' = IF PushOutcome(payload) = "shown"
                        THEN Show(notifications, Notification(payload))
                        ELSE notifications
    /\ UNCHANGED << lifecycleVars, caches, now, ticks, originVersion, dateless, varies, offered,
                    installs, opened, slots, okLog, sweep, monitor >>

\* event.notification.data?.url || '/'
ClickTarget(notification) ==
    IF notification.data = Undefined THEN "/" ELSE OrElse(notification.data.url, "/")

\* notificationclick on the k-th displayed notification: it is closed and
\* clients.openWindow is called
NotificationClick(k) ==
    /\ phase = "activated"
    /\ k \in 1..Len(notifications)
    /\ notifications' = SelectSeq(notifications, LAMBDA n : n # notifications[k])
    /\ opened' = Append(opened, [url |-> ClickTarget(notifications[k]),
                                  payload |-> notifications[k].payload])
    /\ UNCHANGED << lifecycleVars, caches, now, ticks, originVersion, dateless, varies, offered,
                    installs, pushLog, slots, okLog, sweep, monitor >>

(***************************************************************************)
(* The page: PerformanceMonitor's fetch interception, its memory cache and *)
(* its event tracking                                                      *)
(***************************************************************************)
\* this.cacheTimeout = 5 * 60 * 1000
cacheTimeout == 5 * 60 * 1000

\* events.length > 1000: the most events trackEvent persists
EventLimit == 1000

\* window.ANALYTICS_ENDPOINT when the page configures one
ANALYTICS_ENDPOINT == Origin \o "/analytics"

\* the options argument of fetch: method as the caller spelled it (or absent) and
\* the body, when there is one
Options(method, body) == [method |-> method, body |-> body]

\* JSON.stringify(options)
Stringify(options) ==
    IF options.method = Undefined
    THEN "{}"
    ELSE IF options.body = Undefined
         THEN "{\"method\":\"" \o options.method \o "\"}"
         ELSE "{\"method\":\"" \o options.method \o "\",\"body\":\"" \o options.body \o "\"}"

\* `${url}_${JSON.stringify(options)}`
CacheKey(url, options) == url \o "_" \o Stringify(options)

\* the method of the request originalFetch(url, options) puts on the network: GET when
\* options names none, and the standard methods in upper case however they were spelled
NormalizeMethod(method) ==
    CASE method = Undefined -> "GET"
      [] method = "post" -> "POST"
      [] OTHER -> method

\* { name: eventName, ... }: n is the arrival number of the event
Event(name, n) == [name |-> name, n |-> n]

\* fetch(window.ANALYTICS_ENDPOINT, { method: 'POST', headers, body: JSON.stringify(event) })
DeliveryCall(event) ==
    [ url |-> ANALYTICS_ENDPOINT,
      options |-> Options("POST", event.name \o "#" \o ToString(event.n)) ]

\* the fetches the page itself makes through window.fetch
PageCalls == { [url |-> Origin \o "/api/status", options |-> Options(method, Undefined)] :
               method \in {Undefined, "POST", "post"} }

\* variant: when the list is over the limit its tail is cut off (events.length = 1000)
CappedAtTheEnd(events) ==
    IF Len(events) > EventLimit THEN SubSeq(events, 1, EventLimit) ELSE events

\* if (events.length > 1000) events.splice(0, events.length - 1000)
Capped(events) ==
    IF Len(events) > EventLimit
    THEN SubSeq(events, Len(events) - EventLimit + 1, Len(events))
    ELSE events

\* history of who called window.fetch: page code, or sendToAnalytics delivering the
\* event with arrival number n
ByPage == [by |-> "page", event |-> 0]

ByDelivery(n) == [by |-> "delivery", event |-> n]

\* await originalFetch(url, options): one more request on the network
Issued(m, call, cause) ==
    [ m EXCEPT !.requests = @ + 1,
               !.pending = @ \cup { [ id |-> m.requests + 1, call |-> call, cause |-> cause,
                                      sent |-> NormalizeMethod(call.options.method) ] },
               !.last = IF cause = ByPage
                        THEN [ kind |-> "network", key |-> CacheKey(call.url, call.options),
                               n |-> m.activity ]
                        ELSE @ ]

RECURSIVE fetch(_, _, _, _)
RECURSIVE sendToAnalytics(_, _, _)

\* trackEvent: the event joins the list persisted under 'performance_events', the list
\* is cut to the limit, and the event is sent to analytics
trackEvent(m, name, t) ==
    LET event == Event(name, m.tracked + 1)
    IN  sendToAnalytics([ m EXCEPT !.tracked = @ + 1,
                                   !.events = Capped(Append(@, event)) ],
                        event, t)

\* sendToAnalytics: gtag is outside the model; with an endpoint configured the event is
\* posted with fetch, which on the page is the intercepting window.fetch
sendToAnalytics(m, event, t) ==
    IF m.endpoint THEN fetch(m, DeliveryCall(event), ByDelivery(event.n), t) ELSE m

\* window.fetch as setupFetchInterception replaces it, up to its await: a fresh entry
\* of the memory cache answers, a stale one is deleted, and otherwise originalFetch
\* is called
fetch(m, call, cause, t) ==
    LET cacheKey == CacheKey(call.url, call.options)
        found == {e \in m.memoryCache : e.key = cacheKey}
    IN  IF found = {}
        THEN Issued(m, call, cause)
        ELSE LET cached == CHOOSE e \in found : TRUE
             IN  IF t - cached.timestamp < cacheTimeout
                 THEN trackEvent([ m EXCEPT !.cacheHits = @ + 1,
                                            !.last = IF cause = ByPage
                                                     THEN [ kind |-> "cache", key |-> cacheKey,
                                                            n |-> m.activity ]
                                                     ELSE @ ],
                                 "cache_hit", t)
                 ELSE Issued([m EXCEPT !.memoryCache = @ \ found], call, cause)

\* this.memoryCache.set(cacheKey, { response: response.clone(), timestamp: Date.now() });
\* sent is the history of the method the stored response answered
Set(memoryCache, p, response, t) ==
    LET cacheKey == CacheKey(p.call.url, p.call.options)
    IN  {e \in memoryCache : e.key # cacheKey}
        \cup { [ key |-> cacheKey, response |-> response, timestamp |-> t, sent |-> p.sent ] }

\* window.fetch after its await, when originalFetch resolved
Resolved(m, p, response, t) ==
    LET stored == IF Ok(response) /\ p.call.options.method # "POST"
                  THEN Set(m.memoryCache, p, response, t)
                  ELSE m.memoryCache
    IN  trackEvent([ m EXCEPT !.pending = @ \ {p},
                              !.memoryCache = stored,
                              !.cacheMisses = @ + 1 ],
                   "cache_miss", t)

\* window.fetch after its await, when originalFetch rejected
Rejected(m, p, t) == trackEvent([m EXCEPT !.pending = @ \ {p}], "fetch_error", t)

\* the page goes on only while the model's bound on network requests allows it
MonitorStep(m) ==
    /\ m.requests <= MaxRequests
    /\ monitor' = m

\* page activity records an event (the scroll listener, sendMetrics, ...)
PageEvent ==
    /\ monitor.activity < MaxActivity
    /\ MonitorStep(trackEvent([monitor EXCEPT !.activity = @ + 1], "scroll_depth", now))
    /\ UNCHANGED << lifecycleVars, caches, now, ticks, originVersion, dateless, varies, offered,
                    installs, hostVars, slots, okLog, sweep >>

\* page code calls window.fetch
PageFetch(call) ==
    /\ monitor.activity < MaxActivity
    /\ MonitorStep(fetch([monitor EXCEPT !.activity = @ + 1], call, ByPage, now))
    /\ UNCHANGED << lifecycleVars, caches, now, ticks, originVersion, dateless, varies, offered,
                    installs, hostVars, slots, okLog, sweep >>

\* originalFetch resolves for a call in flight
FetchResolves(p, response) ==
    /\ p \in monitor.pending
    /\ MonitorStep(Resolved(monitor, p, response, now))
    /\ UNCHANGED << lifecycleVars, caches, now, ticks, originVersion, dateless, varies, offered,
                    installs, hostVars, slots, okLog, sweep >>

\* originalFetch rejects for a call in flight
FetchRejects(p) ==
    /\ p \in monitor.pending
    /\ MonitorStep(Rejected(monitor, p, now))
    /\ UNCHANGED << lifecycleVars, caches, now, ticks, originVersion, dateless, varies, offered,
                    installs, hostVars, slots, okLog, sweep >>

\* time passes on the page
Elapse(ms) ==
    /\ ticks < MaxElapses
    /\ ticks' = ticks + 1
    /\ now' = now + ms
    /\ UNCHANGED << lifecycleVars, caches, originVersion, dateless, varies, offered, slots, okLog,
                    sweep, installs, hostVars, monitor >>

(***************************************************************************)
(* Environment: the clock, the origin, and the host restarting the worker  *)
(***************************************************************************)
Tick ==
    /\ ticks < MaxTicks
    /\ ticks' = ticks + 1
    /\ now' = now + OneWeekMs + 1000
    /\ UNCHANGED << lifecycleVars, caches, originVersion, dateless, varies, offered, slots, okLog, sweep,
                    installs, hostVars, monitor >>

Publish ==
    /\ originVersion < MaxVersion
    /\ originVersion' = originVersion + 1
    /\ UNCHANGED << lifecycleVars, caches, now, ticks, dateless, varies, offered, slots, okLog, sweep,
                    installs, hostVars, monitor >>

\* the origin publishes new content at a later time
PublishLater ==
    /\ originVersion < MaxVersion
    /\ ticks < MaxTicks
    /\ originVersion' = originVersion + 1
    /\ ticks' = ticks + 1
    /\ now' = now + OneWeekMs + 1000
    /\ UNCHANGED << lifecycleVars, caches, dateless, varies, offered, slots, okLog, sweep,
                    installs, hostVars, monitor >>

\* a new incarnation of the worker starts over the cache storage the last one left
Restart ==
    /\ phase = "activated"
    /\ incarnation < MaxIncarnations
    /\ \A i \in SlotIds : Free(slots[i])
    /\ sweep.pc = "idle"
    /\ phase' = "parsed"
    /\ incarnation' = incarnation + 1
    /\ addAllResult' = "none"
    /\ installReport' = "none"
    /\ skipWaiting' = FALSE
    /\ cacheNames' = << >>
    /\ slots' = [i \in SlotIds |-> IdleSlot]
    /\ sweep' = IdleSweep
    /\ UNCHANGED << caches, deleting, worldVars, okLog >>

Next ==
    \/ InstallOpen
    \/ InstallAddAll
    \/ ActivateKeys
    \/ ActivateDelete
    \/ ActivateClaim
    \/ \E i \in SlotIds, request \in Requests : FetchEvent(i, request)
    \/ \E i \in SlotIds : CacheFirstMatch(i)
    \/ \E i \in SlotIds : CacheFirstSettle(i)
    \/ \E i \in SlotIds : CacheFirstStore(i)
    \/ \E i \in SlotIds : NetworkFirstSettle(i)
    \/ \E i \in SlotIds : NetworkFirstStore(i)
    \/ \E i \in SlotIds : NetworkFirstMatch(i)
    \/ \E i \in SlotIds : NetworkOnlySettle(i)
    \/ \E i \in SlotIds : StaleOpen(i)
    \/ \E i \in SlotIds : StaleMatch(i)
    \/ \E i \in SlotIds : StaleSettle(i)
    \/ \E i \in SlotIds : PutCommit(i)
    \/ \E tag \in SyncTags : PeriodicSync(tag)
    \/ SweepMatch
    \/ SweepDelete
    \/ BackgroundSync
    \/ Tick
    \/ Publish
    \/ PublishLater
    \/ Restart
    \/ \E payload \in PushPayloads : Push(payload)
    \/ \E k \in 1..MaxPushes : NotificationClick(k)

Spec == Init /\ [][Next]_vars

(***************************************************************************)
(* Serving requests: the worker has been installed and activated over an   *)
(* empty cache storage (the state ActivateClaim leaves on a first run,     *)
(* after an install that stored the manifest or one that failed), and      *)
(* handles fetch events.                                                   *)
(***************************************************************************)
WorkerActivated(workload, lanes, negotiated) ==
    /\ phase = "activated"
    /\ incarnation = 1
    /\ varies \in negotiated
    /\ \E failing \in {{}, {1}} :
          /\ caches = AddAll(Open(<< >>, STATIC_CACHE), STATIC_CACHE, STATIC_ASSETS,
                             Response(200, Body(1), DateHeader(0)), failing)
          /\ addAllResult = IF failing = {} THEN "stored" ELSE "failed"
          /\ skipWaiting = (failing = {})
          /\ installs = << IF failing = {} THEN "stored" ELSE "failed" >>
    /\ installReport = "fulfilled"
    /\ cacheNames = << STATIC_CACHE >>
    /\ deleting = {}
    /\ now = 0
    /\ ticks = 0
    /\ originVersion = 1
    /\ dateless = FALSE
    /\ offered = workload
    /\ slots = [i \in 1..lanes |-> IdleSlot]
    /\ okLog = [r \in Logged |-> "none"]
    /\ sweep = IdleSweep
    /\ notifications = << >>
    /\ pushLog = << >>
    /\ opened = << >>

ActivatedWith(workload, lanes, negotiated) ==
    /\ WorkerActivated(workload, lanes, negotiated)
    /\ monitor = IdleMonitor

Activated(workload, lanes) == ActivatedWith(workload, lanes, {FALSE})

InitServe == Activated({r \in Requests : Intercepted(r)}, MaxInFlight)

NextServe ==
    \/ \E i \in SlotIds, request \in Requests : FetchEvent(i, request)
    \/ \E i \in SlotIds : CacheFirstMatch(i)
    \/ \E i \in SlotIds : CacheFirstSettle(i)
    \/ \E i \in SlotIds : CacheFirstStore(i)
    \/ \E i \in SlotIds : NetworkFirstSettle(i)
    \/ \E i \in SlotIds : NetworkFirstStore(i)
    \/ \E i \in SlotIds : NetworkFirstMatch(i)
    \/ \E i \in SlotIds : NetworkOnlySettle(i)
    \/ \E i \in SlotIds : StaleOpen(i)
    \/ \E i \in SlotIds : StaleMatch(i)
    \/ \E i \in SlotIds : StaleSettle(i)
    \/ \E i \in SlotIds : PutCommit(i)
    \/ Publish

SpecServe == InitServe /\ [][NextServe]_vars

(***************************************************************************)
(* The executors called directly.  getCacheStrategy never selects          *)
(* cacheOnly, so the fetch listener never calls it; here it is called on   *)
(* the requests the listener intercepts, while networkFirst and            *)
(* staleWhileRevalidate requests fill the dynamic namespace.               *)
(***************************************************************************)
CacheOnlyCall(i, request) ==
    /\ phase = "activated"
    /\ Free(slots[i])
    /\ \A j \in SlotIds : j < i => ~Free(slots[j])
    /\ InterceptedOf[request]
    /\ slots' = Arrive(i, Dispatch(request, "cacheOnly", "none"))
    /\ UNCHANGED << lifecycleVars, caches, worldVars, okLog, sweep >>

\* the fetch events that fill the dynamic cache: one networkFirst request and one
\* staleWhileRevalidate request
ExecutorsWorkload == {Req("GET", Origin \o "/api/items", ""), Req("GET", Origin \o "/", "")}

InitExecutors == Activated(ExecutorsWorkload, MaxInFlight)

NextExecutors ==
    \/ \E i \in SlotIds, request \in Requests : FetchEvent(i, request)
    \/ \E i \in SlotIds : NetworkFirstSettle(i)
    \/ \E i \in SlotIds : NetworkFirstStore(i)
    \/ \E i \in SlotIds : NetworkFirstMatch(i)
    \/ \E i \in SlotIds : StaleOpen(i)
    \/ \E i \in SlotIds : StaleMatch(i)
    \/ \E i \in SlotIds : StaleSettle(i)
    \/ \E i \in SlotIds : PutCommit(i)
    \/ Publish
    \/ \E i \in SlotIds, request \in Requests : CacheOnlyCall(i, request)
    \/ \E i \in SlotIds : CacheOnlyMatch(i)

SpecExecutors == InitExecutors /\ [][NextExecutors]_vars

(***************************************************************************)
(* The router: an activated worker receives fetch events for one request,  *)
(* drawn from the probe set, and handles them one at a time.               *)
(***************************************************************************)
InitRouter == \E request \in RouterRequests : Activated({request}, 1)

NextRouter ==
    \/ \E i \in SlotIds, request \in RouterRequests : FetchEvent(i, request)
    \/ \E i \in SlotIds : CacheFirstMatch(i)
    \/ \E i \in SlotIds : CacheFirstSettle(i)
    \/ \E i \in SlotIds : CacheFirstStore(i)
    \/ \E i \in SlotIds : NetworkFirstSettle(i)
    \/ \E i \in SlotIds : NetworkFirstStore(i)
    \/ \E i \in SlotIds : NetworkFirstMatch(i)
    \/ \E i \in SlotIds : NetworkOnlySettle(i)
    \/ \E i \in SlotIds : StaleOpen(i)
    \/ \E i \in SlotIds : StaleMatch(i)
    \/ \E i \in SlotIds : StaleSettle(i)
    \/ \E i \in SlotIds : PutCommit(i)

SpecRouter == InitRouter /\ [][NextRouter]_vars

(***************************************************************************)
(* Concurrent refreshes: an activated worker handles several fetch events  *)
(* for one staleWhileRevalidate request at once, while the origin          *)
(* publishes new content as the clock advances.                            *)
(***************************************************************************)
RefreshWorkload == {Req("GET", Origin \o "/", "")}

InitRefresh == Activated(RefreshWorkload, MaxRefreshes)

NextRefresh ==
    \/ \E i \in SlotIds, request \in RefreshWorkload : FetchEvent(i, request)
    \/ \E i \in SlotIds : StaleOpen(i)
    \/ \E i \in SlotIds : StaleMatch(i)
    \/ \E i \in SlotIds : StaleSettle(i)
    \/ \E i \in SlotIds : PutCommit(i)
    \/ PublishLater

SpecRefresh == InitRefresh /\ [][NextRefresh]_vars

(***************************************************************************)
(* Notifications: an activated worker receives push events and clicks on   *)
(* the notifications it displayed.                                         *)
(***************************************************************************)
InitNotify == Activated({}, MaxInFlight)

NextNotify ==
    \/ \E payload \in PushPayloads : Push(payload)
    \/ \E k \in 1..MaxPushes : NotificationClick(k)

SpecNotify == InitNotify /\ [][NextNotify]_vars

(***************************************************************************)
(* The lifecycle alone: install, activate and restarts of the worker over  *)
(* the cache storage of an older generation.                               *)
(***************************************************************************)
NextLifecycle ==
    \/ InstallOpen
    \/ InstallAddAll
    \/ ActivateKeys
    \/ ActivateDelete
    \/ ActivateClaim
    \/ Restart
    \/ Publish
    \/ Tick

SpecLifecycle == Init /\ [][NextLifecycle]_vars

(***************************************************************************)
(* The worker from its start: over the cache storage of an older           *)
(* generation it installs and activates, and then handles requests, one at *)
(* a time, periodicsync events, sync events and push events.  The dynamic  *)
(* namespace an earlier incarnation left can hold an entry captured more   *)
(* than seven days ago.                                                    *)
(***************************************************************************)
WorkerWorkload ==
    { Req("GET", Origin \o "/performance-monitor.js", ""),
      Req("GET", Origin \o "/api/items", ""),
      Req("GET", Origin \o "/", "") }

WorkerPushes == {PushObject("Release", "news", Undefined, "/docs")}

AgedStore ==
    << Namespace("mcp-static-v0", << >>),
       Namespace(DYNAMIC_CACHE, << Entry(Origin \o "/", Response(200, "v0", DateHeader(0))) >>) >>

InitWorker ==
    /\ phase = "parsed"
    /\ incarnation = 1
    /\ addAllResult = "none"
    /\ installReport = "none"
    /\ skipWaiting = FALSE
    /\ caches \in InitialStores \cup {AgedStore}
    /\ cacheNames = << >>
    /\ deleting = {}
    /\ now = OneWeekMs + 5000
    /\ ticks = 0
    /\ originVersion = 1
    /\ dateless = FALSE
    /\ varies = FALSE
    /\ offered = WorkerWorkload
    /\ slots = [i \in 1..1 |-> IdleSlot]
    /\ okLog = [r \in Logged |-> "none"]
    /\ sweep = IdleSweep
    /\ installs = << >>
    /\ notifications = << >>
    /\ pushLog = << >>
    /\ opened = << >>
    /\ monitor = IdleMonitor

NextWorker ==
    \/ InstallOpen
    \/ InstallAddAll
    \/ ActivateKeys
    \/ ActivateDelete
    \/ ActivateClaim
    \/ \E i \in SlotIds, request \in WorkerWorkload : FetchEvent(i, request)
    \/ \E i \in SlotIds : CacheFirstMatch(i)
    \/ \E i \in SlotIds : CacheFirstSettle(i)
    \/ \E i \in SlotIds : CacheFirstStore(i)
    \/ \E i \in SlotIds : NetworkFirstSettle(i)
    \/ \E i \in SlotIds : NetworkFirstStore(i)
    \/ \E i \in SlotIds : NetworkFirstMatch(i)
    \/ \E i \in SlotIds : StaleOpen(i)
    \/ \E i \in SlotIds : StaleMatch(i)
    \/ \E i \in SlotIds : StaleSettle(i)
    \/ \E i \in SlotIds : PutCommit(i)
    \/ \E tag \in SyncTags : PeriodicSync(tag)
    \/ SweepMatch
    \/ SweepDelete
    \/ BackgroundSync
    \/ \E payload \in WorkerPushes : Push(payload)

SpecWorker == InitWorker /\ [][NextWorker]_vars

(***************************************************************************)
(* The expiry sweep alone: an activated worker whose dynamic namespace     *)
(* holds entries captured around the expiry threshold, and no request in   *)
(* flight.                                                                 *)
(***************************************************************************)
SweepKeys ==
    << Origin \o "/", Origin \o "/api/items", Origin \o "/index.html",
       Origin \o "/about", Origin \o "/docs" >>

\* clock readings when the sweep starts: a whole second, and half a second later
SweepClock == {OneWeekMs + 5000, OneWeekMs + 5500}

\* Date headers one second before, at, and one second after now - 7 days, or none
SweepDates == {NoDate, 4, 5, 6}

InitSweep ==
    /\ phase = "activated"
    /\ incarnation = 1
    /\ addAllResult = "stored"
    /\ installReport = "fulfilled"
    /\ skipWaiting = TRUE
    /\ now \in SweepClock
    /\ varies = FALSE
    /\ \E k \in 0..MaxSweepEntries : \E dates \in [1..k -> SweepDates] :
          caches = << Namespace(STATIC_CACHE,
                                EntriesOf(PutAll(Open(<< >>, STATIC_CACHE), STATIC_CACHE,
                                                 STATIC_ASSETS, Response(200, Body(1), 0)),
                                          STATIC_CACHE)),
                      Namespace(DYNAMIC_CACHE,
                                [j \in 1..k |-> Entry(SweepKeys[j], Response(200, Body(1), dates[j]))]) >>
    /\ cacheNames = << STATIC_CACHE >>
    /\ deleting = {}
    /\ ticks = 0
    /\ originVersion = 1
    /\ dateless = FALSE
    /\ offered = {r \in Requests : Intercepted(r)}
    /\ slots = [i \in 1..MaxInFlight |-> IdleSlot]
    /\ okLog = [r \in Logged |-> "none"]
    /\ sweep = IdleSweep
    /\ installs = << "stored" >>
    /\ notifications = << >>
    /\ pushLog = << >>
    /\ opened = << >>
    /\ monitor = IdleMonitor

NextSweep ==
    \/ SweepStart
    \/ SweepMatch
    \/ SweepDelete

SpecSweep == InitSweep /\ [][NextSweep]_vars

(***************************************************************************)
(* The expiry sweep next to request handling: an activated worker whose    *)
(* dynamic namespace holds an entry for each of two keys, captured before  *)
(* or after the expiry threshold, sweeps while it handles networkFirst and *)
(* staleWhileRevalidate requests for these keys.                           *)
(***************************************************************************)
SweepingWorkload == {Req("GET", Origin \o "/", ""), Req("GET", Origin \o "/api/items", "")}

\* Date headers one second before and one second after now - 7 days
SweepingDates == {4, 6}

InitSweeping ==
    /\ phase = "activated"
    /\ incarnation = 1
    /\ addAllResult = "stored"
    /\ installReport = "fulfilled"
    /\ skipWaiting = TRUE
    /\ now = OneWeekMs + 5000
    /\ varies = FALSE
    /\ \E dates \in [1..2 -> SweepingDates] :
          caches = << Namespace(STATIC_CACHE,
                                EntriesOf(PutAll(Open(<< >>, STATIC_CACHE), STATIC_CACHE,
                                                 STATIC_ASSETS, Response(200, Body(1), 0)),
                                          STATIC_CACHE)),
                      Namespace(DYNAMIC_CACHE,
                                [j \in 1..2 |-> Entry(SweepKeys[j], Response(200, Body(1), dates[j]))]) >>
    /\ cacheNames = << STATIC_CACHE >>
    /\ deleting = {}
    /\ ticks = 0
    /\ originVersion = 1
    /\ dateless = FALSE
    /\ offered = SweepingWorkload
    /\ slots = [i \in 1..MaxInFlight |-> IdleSlot]
    /\ okLog = [r \in Logged |-> "none"]
    /\ sweep = IdleSweep
    /\ installs = << "stored" >>
    /\ notifications = << >>
    /\ pushLog = << >>
    /\ opened = << >>
    /\ monitor = IdleMonitor

NextSweeping ==
    \/ \E i \in SlotIds, request \in SweepingWorkload : FetchEvent(i, request)
    \/ \E i \in SlotIds : NetworkFirstSettle(i)
    \/ \E i \in SlotIds : NetworkFirstStore(i)
    \/ \E i \in SlotIds : NetworkFirstMatch(i)
    \/ \E i \in SlotIds : StaleOpen(i)
    \/ \E i \in SlotIds : StaleMatch(i)
    \/ \E i \in SlotIds : StaleSettle(i)
    \/ \E i \in SlotIds : PutCommit(i)
    \/ SweepStart
    \/ SweepMatch
    \/ SweepDelete

SpecSweeping == InitSweeping /\ [][NextSweeping]_vars

(***************************************************************************)
(* Requests sharing a URL: an activated worker handles requests for one    *)
(* URL that the classifier sends to cacheFirst or to networkFirst by their *)
(* Accept header, next to a staleWhileRevalidate and a networkOnly         *)
(* request, and cacheOnly is called directly; the origin's responses carry *)
(* Vary: Accept or no Vary header.                                         *)
(***************************************************************************)
SharedWorkload ==
    SharedRequests
        \cup {Req("GET", Origin \o "/", ""), Req("GET", "https://www.google-analytics.com/collect", "")}

InitShared == ActivatedWith(SharedWorkload, MaxInFlight, BOOLEAN)

NextShared ==
    \/ \E i \in SlotIds, request \in SharedWorkload : FetchEvent(i, request)
    \/ \E i \in SlotIds : CacheFirstMatch(i)
    \/ \E i \in SlotIds : CacheFirstSettle(i)
    \/ \E i \in SlotIds : CacheFirstStore(i)
    \/ \E i \in SlotIds : NetworkFirstSettle(i)
    \/ \E i \in SlotIds : NetworkFirstStore(i)
    \/ \E i \in SlotIds : NetworkFirstMatch(i)
    \/ \E i \in SlotIds : NetworkOnlySettle(i)
    \/ \E i \in SlotIds : StaleOpen(i)
    \/ \E i \in SlotIds : StaleMatch(i)
    \/ \E i \in SlotIds : StaleSettle(i)
    \/ \E i \in SlotIds : PutCommit(i)
    \/ \E i \in SlotIds, request \in SharedRequests : CacheOnlyCall(i, request)
    \/ \E i \in SlotIds : CacheOnlyMatch(i)

SpecShared == InitShared /\ [][NextShared]_vars

(***************************************************************************)
(* The page's monitor next to an activated worker: the page records events *)
(* and fetches, the network settles the fetches in flight, time passes     *)
(***************************************************************************)
\* the list an earlier page load left under 'performance_events'
Persisted(n) == [k \in 1..n |-> Event("page_view", k)]

PageResponses == NetworkResponses(1, 0, FALSE)

\* a first page load: nothing is persisted yet
InitMonitor ==
    /\ WorkerActivated({}, 1, {FALSE})
    /\ monitor \in {MonitorOf(endpoint, << >>) : endpoint \in BOOLEAN}

NextMonitor ==
    \/ PageEvent
    \/ \E call \in PageCalls : PageFetch(call)
    \/ \E p \in monitor.pending, response \in PageResponses : FetchResolves(p, response)
    \/ \E p \in monitor.pending : FetchRejects(p)
    \/ \E ms \in {cacheTimeout - 1, 1} : Elapse(ms)

SpecMonitor == InitMonitor /\ [][NextMonitor]_vars

(***************************************************************************)
(* The persisted event list of a page that earlier page loads have filled  *)
(* up to, or close to, its limit                                           *)
(***************************************************************************)
InitEvents ==
    /\ WorkerActivated({}, 1, {FALSE})
    /\ monitor \in {MonitorOf(endpoint, Persisted(n)) :
                        endpoint \in BOOLEAN, n \in {0, EventLimit - 1, EventLimit}}

NextEvents ==
    \/ PageEvent
    \/ \E call \in PageCalls : PageFetch(call)
    \/ \E p \in monitor.pending, response \in PageResponses : FetchResolves(p, response)
    \/ \E p \in monitor.pending : FetchRejects(p)

SpecEvents == InitEvents /\ [][NextEvents]_vars

(***************************************************************************)
(* Properties                                                              *)
(***************************************************************************)
\* some namespace of the storage holds an entry for the key
Present(storage, key) == \E n \in 1..Len(storage) : key \in Keys(storage[n].entries)

\* the responses the namespaces of the storage hold for the key
Held(storage, key) ==
    {Lookup(storage[n].entries, key) :
        n \in {m \in 1..Len(storage) : key \in Keys(storage[m].entries)}}

\* the fetch of a finished request failed: it was started and left no response
FetchFailed(slot) == slot.fetched /\ slot.networkResponse = None

\* C1: a request classified networkOnly is handled without reading or writing the
\* cache: the step that settles it, with a response or with a failure, leaves
\* every namespace as it was, and the request never issues a cache read or a put.
C1_NetworkOnlyLeavesCaches ==
    [][\A i \in SlotIds :
          /\ slots'[i].strategy = "networkOnly" => ~slots'[i].read /\ slots'[i].put = "none"
          /\ (slots[i].pc = "no_fetch" /\ slots'[i].pc = "done") => caches' = caches]_vars

C1_Witness ==
    \E i \in SlotIds :
        /\ slots[i].strategy = "networkOnly"
        /\ slots[i].pc = "done"
        /\ slots[i].answer = "network"
        /\ Ok(slots[i].response)

\* C2 as stated: a request that follows an identical cacheFirst or networkFirst
\* request which received a 2xx network response (here: one whose write-through
\* has also been stored) is answered from the cache and makes no network call.
C2_Original ==
    \A i \in SlotIds :
        slots[i].prior # "none" =>
            /\ ~slots[i].fetched
            /\ slots[i].pc = "done" => slots[i].answer = "cached"

\* C2 amended: once the write-through of a 2xx cacheFirst response has been
\* stored, a later identical cacheFirst request is answered with the cached
\* response and makes no network call; a networkFirst request always makes a
\* network call and is answered from the cache only when that call failed.
C2_CachedAfterWriteThrough ==
    \A i \in SlotIds :
        /\ (slots[i].strategy = "cacheFirst" /\ slots[i].prior = "stored") =>
              /\ ~slots[i].fetched
              /\ slots[i].pc = "done" =>
                    /\ slots[i].answer = "cached"
                    /\ slots[i].response = slots[i].cachedResponse
                    /\ Ok(slots[i].response)
        /\ slots[i].strategy = "networkFirst" =>
              /\ slots[i].fetched
              /\ slots[i].answer = "cached" => FetchFailed(slots[i])

C2_Witness ==
    \E i \in SlotIds :
        /\ slots[i].strategy = "cacheFirst"
        /\ slots[i].prior = "stored"
        /\ slots[i].pc = "done"
        /\ slots[i].answer = "cached"

\* C3: staleWhileRevalidate answers with the entry the dynamic namespace holds for
\* the key; a refresh that gets a 2xx response puts it, and when that put takes
\* effect the dynamic namespace holds the network response for the key while the
\* caller keeps the stale answer it already got.
C3_StaleThenRefreshed ==
    [][\A i \in SlotIds :
          LET held == Lookup(EntriesOf(caches, DYNAMIC_CACHE), slots[i].key)
          IN /\ (slots[i].pc = "swr_match" /\ slots'[i].pc # "swr_match" /\ held # None) =>
                    slots'[i].answer = "cached" /\ slots'[i].response = held
             /\ (slots[i].pc = "swr_fetch" /\ slots'[i].pc = "done"
                 /\ Ok(slots'[i].networkResponse)) =>
                    /\ slots'[i].put = "pending"
                    /\ slots[i].answer = "cached" =>
                          slots'[i].answer = "cached" /\ slots'[i].response = slots[i].response
             /\ (slots[i].strategy = "staleWhileRevalidate" /\ slots[i].put = "pending"
                 /\ slots'[i].put = "stored") =>
                    /\ Lookup(EntriesOf(caches', DYNAMIC_CACHE), slots[i].key)
                          = slots[i].networkResponse
                    /\ slots'[i].answer = slots[i].answer
                    /\ slots'[i].response = slots[i].response]_vars

C3_Witness ==
    \E i \in SlotIds :
        /\ slots[i].strategy = "staleWhileRevalidate"
        /\ slots[i].answer = "cached"
        /\ slots[i].put = "stored"
        /\ slots[i].response # slots[i].networkResponse
        /\ Lookup(EntriesOf(caches, DYNAMIC_CACHE), slots[i].key) = slots[i].networkResponse

\* C4: a cacheFirst, networkFirst or staleWhileRevalidate request that found no
\* cached entry and whose fetch failed is answered with the 503 sentinel response.
C4_UnavailableIs503 ==
    \A i \in SlotIds :
        ( /\ slots[i].strategy \in {"cacheFirst", "networkFirst", "staleWhileRevalidate"}
          /\ slots[i].pc = "done"
          /\ slots[i].read
          /\ slots[i].cachedResponse = None
          /\ ~Present(caches, slots[i].key)
          /\ FetchFailed(slots[i]) ) =>
            slots[i].answer = "sentinel" /\ slots[i].response = Offline

\* C5: when a manifest fetch fails the install stores nothing: the storage is as
\* it was before cache.addAll (an empty static namespace stays empty); when every
\* manifest URL is fetched the static namespace holds exactly one entry per
\* manifest URL, each the response fetched by this install.
C5_InstallAllOrNothing ==
    [][(phase = "installing" /\ phase' = "installed") =>
          LET before == EntriesOf(caches, STATIC_CACHE)
              after == EntriesOf(caches', STATIC_CACHE)
          IN IF addAllResult' = "failed"
             THEN caches' = caches
             ELSE /\ addAllResult' = "stored"
                  /\ Keys(after) = Keys(before) \cup ManifestKeys
                  /\ Len(after) = Cardinality(Keys(after))
                  /\ \A key \in ManifestKeys :
                        /\ Lookup(after, key).body = Body(originVersion)
                        /\ Ok(Lookup(after, key))
                  /\ \A key \in Keys(before) \ ManifestKeys :
                        Lookup(after, key) = Lookup(before, key)]_vars

C5_Witness ==
    /\ phase = "installed"
    /\ addAllResult = "failed"
    /\ STATIC_CACHE \in Names(caches)
    /\ EntriesOf(caches, STATIC_CACHE) = << >>

\* C6: an install whose cache.addAll failed is reported to the host as failed and
\* is not followed by activate.
C6_FailedInstallIsLoud ==
    addAllResult = "failed" =>
        /\ installReport = "rejected"
        /\ phase \notin {"activating", "activated"}

\* C7: while activate runs the entries of the current static and dynamic
\* namespaces are not changed, and when it completes a namespace that
\* caches.keys() listed still exists exactly if its name is STATIC_CACHE or
\* DYNAMIC_CACHE.
C7_ActivateKeepsCurrentOnly ==
    [][/\ phase = "activating" =>
             /\ EntriesOf(caches', STATIC_CACHE) = EntriesOf(caches, STATIC_CACHE)
             /\ EntriesOf(caches', DYNAMIC_CACHE) = EntriesOf(caches, DYNAMIC_CACHE)
       /\ (phase = "activating" /\ phase' = "activated") =>
             \A k \in 1..Len(cacheNames) :
                 cacheNames[k] \in Names(caches')
                     <=> cacheNames[k] \in {STATIC_CACHE, DYNAMIC_CACHE}]_vars

C7_Witness ==
    /\ phase = "activated"
    /\ \E k \in 1..Len(cacheNames) : cacheNames[k] \notin Names(caches)
    /\ \E k \in 1..Len(cacheNames) : cacheNames[k] = DYNAMIC_CACHE
    /\ EntriesOf(caches, DYNAMIC_CACHE) # << >>
    /\ EntriesOf(caches, STATIC_CACHE) # << >>

\* the capture timestamp of the response is older than t milliseconds
OlderThan(response, t) == response.date # NoDate /\ response.date * 1000 < t

\* C8: a sweep that ran alone leaves the dynamic namespace holding, in the same
\* order, exactly the entries it held before whose capture timestamp is not older
\* than now - 7 days, and leaves the other namespaces as they were.
C8_SweepDeletesExactlyExpired ==
    (sweep.ran /\ sweep.pc = "idle") =>
        /\ EntriesOf(caches, DYNAMIC_CACHE)
              = SelectSeq(sweep.before, LAMBDA e : ~OlderThan(e.response, now - 7 * 24 * 60 * 60 * 1000))
        /\ Names(caches) = {STATIC_CACHE, DYNAMIC_CACHE}
        /\ Len(EntriesOf(caches, STATIC_CACHE)) = Len(STATIC_ASSETS)

\* entries one second older than, at, and one second newer than the threshold
C8_Witness ==
    /\ sweep.ran
    /\ sweep.pc = "idle"
    /\ now = OneWeekMs + 5000
    /\ [k \in 1..Len(sweep.before) |-> sweep.before[k].response.date] = << 4, 5, 6 >>
    /\ LET after == EntriesOf(caches, DYNAMIC_CACHE)
       IN [k \in 1..Len(after) |-> after[k].response.date] = << 5, 6 >>

\* C9: when the fetch of a networkFirst request has failed, the request is
\* answered with an entry held for its key if some namespace holds one, and with
\* the 503 sentinel exactly when no namespace holds one.
C9_NetworkFirstFallsBack ==
    [][\A i \in SlotIds :
          (slots[i].pc = "nf_match" /\ slots'[i].pc = "done") =>
              IF Present(caches, slots[i].key)
              THEN /\ slots'[i].answer = "cached"
                   /\ slots'[i].response \in Held(caches, slots[i].key)
              ELSE /\ slots'[i].answer = "sentinel"
                   /\ slots'[i].response = Offline]_vars

C9_Witness ==
    \E i \in SlotIds :
        /\ slots[i].strategy = "networkFirst"
        /\ slots[i].pc = "done"
        /\ FetchFailed(slots[i])
        /\ slots[i].answer = "cached"
        /\ slots[i].response \in Held(caches, slots[i].key)

\* C10: cacheOnly never fetches and never puts; its only step leaves the storage
\* as it was and answers with an entry held for the key if some namespace holds
\* one, and with the 404 sentinel if none does.
C10_CacheOnlyNeverFetches ==
    [][\A i \in SlotIds :
          /\ slots'[i].strategy = "cacheOnly" => ~slots'[i].fetched /\ slots'[i].put = "none"
          /\ (slots[i].pc = "co_match" /\ slots'[i].pc = "done") =>
                /\ caches' = caches
                /\ IF Present(caches, slots[i].key)
                   THEN /\ slots'[i].answer = "cached"
                        /\ slots'[i].response \in Held(caches, slots[i].key)
                   ELSE /\ slots'[i].answer = "sentinel"
                        /\ slots'[i].response = NotFound]_vars

C10_Witness ==
    \E i \in SlotIds :
        /\ slots[i].strategy = "cacheOnly"
        /\ slots[i].pc = "done"
        /\ slots[i].answer = "sentinel"
        /\ slots[i].response = NotFound
        /\ ~Present(caches, slots[i].key)

\* the probe input a request was built from
InputOf == [r \in RouterRequests |-> CHOOSE in \in RouterInputs : RouterReq(in) = r]

TrackingHosts == {"www.google-analytics.com", "www.googletagmanager.com"}

StaticHosts == {"fonts.googleapis.com", "fonts.gstatic.com", "cdnjs.cloudflare.com"}

\* the rules of the classifier, read off the parts of the probe input
TrackingRule(in) == in.host \in TrackingHosts \/ in.path \in {"/analytics/track.js"}

ApiRule(in) ==
    \/ in.path \in {"/api/app.js", "/data.json", "/config.json.js"}
    \/ in.accept = "text/html, application/json;q=0.9"

StaticRule(in) ==
    \/ in.path \in {"/analytics/track.js", "/api/app.js", "/config.json.js", "/styles.CSS"}
    \/ in.host \in StaticHosts

FirstMatch ==
    [in \in RouterInputs |->
        IF TrackingRule(in) THEN "networkOnly"
        ELSE IF ApiRule(in) THEN "networkFirst"
        ELSE IF StaticRule(in) THEN "cacheFirst"
        ELSE "staleWhileRevalidate"]

\* C11: the strategy selected for an intercepted request is that of the first rule
\* it matches, in the order analytics/tracking (networkOnly), API (networkFirst),
\* static asset (cacheFirst); a request matching none is staleWhileRevalidate.
C11_FirstMatchWins ==
    \A i \in SlotIds :
        (slots[i].strategy # "none" /\ slots[i].request \in RouterRequests) =>
            slots[i].strategy = FirstMatch[InputOf[slots[i].request]]

\* a request matching the API rule and the static-asset rule, not the tracking rule
C11_Witness ==
    \E i \in SlotIds :
        /\ slots[i].request = Req("GET", "https://docs.example/api/app.js", "")
        /\ slots[i].strategy = "networkFirst"
        /\ slots[i].pc = "done"

\* the request has the GET method and an http or https URL
Eligible == [in \in RouterInputs |-> in.method = "GET" /\ in.scheme \in {"http://", "https://"}]

\* C12: for a request with another method than GET or a URL that is not http(s)
\* the listener selects no strategy and supplies no response, the arrival of the
\* request leaves every namespace as it was, and the request never reads the
\* cache, fetches or puts.
C12_OthersPassThrough ==
    [][\A i \in SlotIds :
          LET slot == slots'[i]
          IN (slot.request \in RouterRequests /\ ~Eligible[InputOf[slot.request]]) =>
                /\ slot.strategy = "none"
                /\ slot.pc = "done"
                /\ slot.answer = "passthrough"
                /\ slot.response = None
                /\ ~slot.read /\ ~slot.fetched /\ slot.put = "none"
                /\ caches' = caches]_vars

C12_Witness ==
    \E i \in SlotIds :
        /\ slots[i].request = Req("POST", "https://docs.example/api/app.js", "")
        /\ slots[i].pc = "done"
        /\ slots[i].answer = "passthrough"

\* the request of slot i is at the await of its fetch, which settles in this step
Settling(i) ==
    /\ slots[i].pc \in {"cf_fetch", "nf_fetch", "swr_fetch"}
    /\ slots'[i].pc # slots[i].pc

\* every entry that appears or changes in this step is the 2xx network response of
\* a request whose put takes effect in this step
OnlyOkWritten ==
    \/ caches' = caches
    \/ \A n \in 1..Len(caches') : \A k \in 1..Len(caches'[n].entries) :
          LET entry == caches'[n].entries[k]
          IN Lookup(EntriesOf(caches, caches'[n].name), entry.key) # entry.response =>
                \E i \in SlotIds :
                    /\ slots[i].put = "pending" /\ slots'[i].put = "stored"
                    /\ entry = Entry(slots[i].key, slots[i].networkResponse)
                    /\ Ok(slots[i].networkResponse)
                    /\ slots[i].fetched

\* a fetch that settles leaves the storage as it was, and puts nothing unless the
\* response is 2xx
SettlingWritesNothing ==
    \A i \in SlotIds :
        Settling(i) =>
            /\ caches' = caches
            /\ ~Ok(slots'[i].networkResponse) => slots'[i].put = "none"

\* C13 as stated: only 2xx network responses are written, a failed fetch changes
\* no namespace, and every non-success response is returned to the caller.
C13_Original ==
    [][/\ OnlyOkWritten
       /\ SettlingWritesNothing
       /\ \A i \in SlotIds :
             (Settling(i) /\ slots'[i].networkResponse # None
                          /\ ~Ok(slots'[i].networkResponse)) =>
                 /\ slots'[i].answer = "network"
                 /\ slots'[i].response = slots'[i].networkResponse]_vars

\* C13 amended: only 2xx network responses are written and a failed fetch changes no
\* namespace; a non-success response is returned to the caller unless
\* staleWhileRevalidate has already answered the caller with the cached entry, which
\* then stays the caller's answer.
C13_OnlySuccessesWritten ==
    [][/\ OnlyOkWritten
       /\ SettlingWritesNothing
       /\ \A i \in SlotIds :
             (Settling(i) /\ slots'[i].networkResponse # None
                          /\ ~Ok(slots'[i].networkResponse)) =>
                 IF slots[i].answer = "none"
                 THEN /\ slots'[i].answer = "network"
                      /\ slots'[i].response = slots'[i].networkResponse
                 ELSE /\ slots[i].strategy = "staleWhileRevalidate"
                      /\ slots[i].answer = "cached"
                      /\ slots'[i].answer = "cached"
                      /\ slots'[i].response = slots[i].response]_vars

\* a non-success response came back to a networkFirst caller while an earlier 2xx
\* response stays stored for the key
C13_Witness ==
    \E i \in SlotIds :
        /\ slots[i].strategy = "networkFirst"
        /\ slots[i].pc = "done"
        /\ slots[i].answer = "network"
        /\ slots[i].response.status = 404
        /\ slots[i].put = "none"
        /\ Present(caches, slots[i].key)
        /\ \A response \in Held(caches, slots[i].key) : Ok(response)

\* the requests whose put takes effect in this step
Writers == {i \in SlotIds : slots[i].put = "pending" /\ slots'[i].put = "stored"}

\* C15: with several staleWhileRevalidate refreshes of one key in flight, each put
\* that takes effect leaves the dynamic namespace holding, for the key, exactly the
\* whole network response of the request that put it, whatever was held before and
\* whatever the other refreshes fetched; and the entry changes in no other step, so
\* the entry held in the end is that of the last put.
C15_LastWriteWins ==
    [][LET before == EntriesOf(caches, DYNAMIC_CACHE)
           after == EntriesOf(caches', DYNAMIC_CACHE)
       IN IF Writers = {}
          THEN after = before
          ELSE \E i \in Writers :
                  /\ Writers = {i}
                  /\ Keys(after) = Keys(before) \cup {slots[i].key}
                  /\ Len(after) = Cardinality(Keys(after))
                  /\ Lookup(after, slots[i].key) = slots[i].networkResponse
                  /\ \A key \in Keys(before) \ {slots[i].key} :
                        Lookup(after, key) = Lookup(before, key)]_vars

\* two refreshes of the key fetched different responses; the put of one has taken
\* effect over an older entry while the put of the other is still to come
C15_Witness ==
    \E i, j \in SlotIds :
        /\ i # j
        /\ slots[i].strategy = "staleWhileRevalidate"
        /\ slots[j].strategy = "staleWhileRevalidate"
        /\ slots[i].key = slots[j].key
        /\ slots[i].put = "stored"
        /\ slots[j].put = "pending"
        /\ slots[i].networkResponse.body # slots[j].networkResponse.body
        /\ slots[i].networkResponse.date # slots[j].networkResponse.date
        /\ slots[i].cachedResponse # None
        /\ Lookup(EntriesOf(caches, DYNAMIC_CACHE), slots[i].key) = slots[i].networkResponse

\* C16: a staleWhileRevalidate caller whose key is held by the dynamic namespace is
\* answered with the held entry as soon as the lookup returns, while the fetch of
\* the refresh is still unsettled, and keeps that answer however the fetch
\* settles; a fetch that fails leaves the storage as it was.
C16_CachedAnswerStands ==
    [][\A i \in SlotIds :
          /\ (slots[i].pc = "swr_match" /\ slots'[i].pc = "swr_fetch"
               /\ Lookup(EntriesOf(caches, DYNAMIC_CACHE), slots[i].key) # None) =>
                 /\ slots'[i].answer = "cached"
                 /\ slots'[i].response = Lookup(EntriesOf(caches, DYNAMIC_CACHE), slots[i].key)
          /\ (slots[i].strategy = "staleWhileRevalidate" /\ slots[i].answer = "cached"
               /\ slots'[i].pc \in {"swr_fetch", "done"}) =>
                 /\ slots'[i].answer = "cached"
                 /\ slots'[i].response = slots[i].response
          /\ (slots[i].pc = "swr_fetch" /\ slots'[i].pc = "done"
               /\ slots'[i].networkResponse = None) =>
                 /\ caches' = caches
                 /\ slots'[i].put = "none"]_vars

C16_Witness ==
    \E i \in SlotIds :
        /\ slots[i].strategy = "staleWhileRevalidate"
        /\ slots[i].pc = "done"
        /\ FetchFailed(slots[i])
        /\ slots[i].answer = "cached"
        /\ slots[i].response = slots[i].cachedResponse
        /\ Lookup(EntriesOf(caches, DYNAMIC_CACHE), slots[i].key) = slots[i].response

\* C17: every window opened by a click on a notification shows the URL carried in
\* the push payload that produced the notification, and the root '/' only when
\* the payload carried no URL.
C17_ClickOpensPayloadUrl ==
    \A k \in 1..Len(opened) :
        opened[k].url = IF opened[k].payload.url = Undefined THEN "/" ELSE opened[k].payload.url

\* the payload does not have the shape { title, body, tag?, requireInteraction?, url? }
Malformed(payload) == payload.kind # "object" \/ payload.title = Undefined \/ payload.body = Undefined

\* C18: a push event with a malformed payload or with no payload is ignored: the
\* listener ends without an error and no notification displayed comes from such a
\* payload.
C18_MalformedPushIgnored ==
    /\ \A k \in 1..Len(pushLog) :
          Malformed(pushLog[k].payload) => pushLog[k].outcome = "ignored"
    /\ \A k \in 1..Len(notifications) : ~Malformed(notifications[k].payload)

\* some earlier install of the worker stored the manifest
StoredBefore == \E k \in 1..Len(installs) : installs[k] = "stored"

\* C19: an install that stores the manifest after an earlier install stored it
\* leaves the static namespace with the keys it had: one entry per distinct
\* manifest URL, none twice and none removed.
C19_InstallIdempotent ==
    [][(phase = "installing" /\ phase' = "installed" /\ addAllResult' = "stored"
        /\ StoredBefore) =>
          LET before == EntriesOf(caches, STATIC_CACHE)
              after == EntriesOf(caches', STATIC_CACHE)
          IN /\ Keys(after) = Keys(before)
             /\ Keys(after) = ManifestKeys
             /\ Len(after) = Cardinality(ManifestKeys)
             /\ Len(after) = Len(before)]_vars

C19_Witness ==
    /\ phase = "installed"
    /\ installs = << "stored", "stored" >>
    /\ Len(EntriesOf(caches, STATIC_CACHE)) = Len(STATIC_ASSETS)
    /\ \A key \in ManifestKeys :
          Lookup(EntriesOf(caches, STATIC_CACHE), key).body = Body(originVersion)

\* the strategies the classifier can return
Strategies == {"cacheFirst", "networkFirst", "networkOnly", "staleWhileRevalidate"}

\* a fetch event arrives in slot i in this step
Arrival(i) == Free(slots[i]) /\ slots'[i] # slots[i] /\ slots'[i].pc # "idle"

\* C21: classification is a function of the request descriptor with no side effect:
\* every arriving eligible request gets one of the four strategies, the same one
\* the same descriptor got at its previous arrival whatever has been cached since,
\* and the arrival leaves every namespace as it was.
C21_ClassifyIsAFunction ==
    [][\A i \in SlotIds :
          (Arrival(i) /\ slots'[i].request \in RouterRequests
                      /\ Eligible[InputOf[slots'[i].request]]) =>
              /\ slots'[i].strategy \in Strategies
              /\ slots[i].request = slots'[i].request =>
                    slots'[i].strategy = slots[i].strategy
              /\ caches' = caches]_vars

\* a request classified staleWhileRevalidate again after its own refresh was cached
C21_Witness ==
    \E i \in SlotIds :
        /\ slots[i].request = Req("GET", "https://docs.example/guide", "")
        /\ slots[i].strategy = "staleWhileRevalidate"
        /\ slots[i].pc = "swr_open"
        /\ Present(caches, slots[i].key)

\* C22: whenever cacheFirst answers a request from the cache, without a network
\* call, the response it returns is the entry the static namespace holds for the
\* request's key.
C22_CacheFirstReadsStatic ==
    [][\A i \in SlotIds :
          (slots[i].pc = "cf_match" /\ slots'[i].answer = "cached") =>
              /\ ~slots'[i].fetched
              /\ slots'[i].response = Lookup(EntriesOf(caches, STATIC_CACHE), slots[i].key)]_vars

\* the namespace an executor may write to
OwnNamespace(strategy) ==
    CASE strategy = "cacheFirst" -> STATIC_CACHE
      [] strategy \in {"networkFirst", "staleWhileRevalidate"} -> DYNAMIC_CACHE
      [] OTHER -> "none"

\* C23: the entries of a namespace change only when the put of a request takes
\* effect whose executor owns the namespace (cacheFirst the static one,
\* networkFirst and staleWhileRevalidate the dynamic one), and then only the entry
\* of that request's key; cacheOnly and networkOnly requests never put; no step
\* creates a namespace other than the static and the dynamic one.
C23_ExecutorsWriteOwnNamespace ==
    [][/\ \A i \in SlotIds :
             slots'[i].strategy \in {"cacheOnly", "networkOnly"} => slots'[i].put = "none"
       /\ \/ caches' = caches
          \/ /\ Names(caches') \subseteq Names(caches) \cup {STATIC_CACHE, DYNAMIC_CACHE}
             /\ \A name \in Names(caches') :
                   LET before == EntriesOf(caches, name)
                       after == EntriesOf(caches', name)
                   IN after # before =>
                         \E i \in Writers :
                             /\ OwnNamespace(slots[i].strategy) = name
                             /\ \A key \in (Keys(before) \cup Keys(after)) \ {slots[i].key} :
                                   Lookup(after, key) = Lookup(before, key)]_vars

\* cacheFirst has written its key into the static namespace while the dynamic
\* namespace holds other entries and not that key
C23_Witness ==
    \E i \in SlotIds :
        /\ slots[i].strategy = "cacheFirst"
        /\ slots[i].put = "stored"
        /\ slots[i].key \in Keys(EntriesOf(caches, STATIC_CACHE))
        /\ slots[i].key \notin Keys(EntriesOf(caches, DYNAMIC_CACHE))
        /\ EntriesOf(caches, DYNAMIC_CACHE) # << >>

\* the request of slot i waits for its network fetch, with nothing else to go on
AwaitsFetch(slot) == slot.pc \in {"nf_fetch", "cf_fetch"}

\* C24: networkFirst reads the cache only in a step that follows the failure of
\* its fetch, never once the fetch has returned a response of any status; while
\* a networkFirst request, or a cacheFirst request that missed the cache, waits for
\* its fetch the caller has no response, whatever the cache holds, and nothing but
\* the settling of that fetch moves the request on.
C24_CacheOnlyAfterFailedFetch ==
    [][\A i \in SlotIds :
          /\ AwaitsFetch(slots'[i]) =>
                /\ slots'[i].answer = "none"
                /\ slots'[i].response = None
                /\ slots'[i].networkResponse = None
          /\ (AwaitsFetch(slots[i]) /\ slots'[i] # slots[i]) =>
                /\ slots'[i].request = slots[i].request
                /\ \/ slots'[i].networkResponse # None
                   \/ slots'[i].pc = "nf_match"
                   \/ slots'[i].answer = "sentinel"
          /\ slots'[i].strategy = "networkFirst" =>
                /\ slots'[i].pc = "nf_match" =>
                      /\ slots[i].pc \in {"nf_fetch", "nf_match"}
                      /\ slots'[i].networkResponse = None
                /\ (slots'[i].read /\ ~slots[i].read) => slots[i].pc = "nf_match"
                /\ slots'[i].networkResponse # None =>
                      /\ ~slots'[i].read
                      /\ slots'[i].answer \in {"none", "network"}
                /\ slots'[i].answer = "cached" =>
                      /\ slots'[i].read
                      /\ slots'[i].networkResponse = None]_vars

\* a networkFirst request waits for its fetch while the cache holds an entry for
\* its key
C24_Witness ==
    \E i \in SlotIds :
        /\ slots[i].strategy = "networkFirst"
        /\ slots[i].pc = "nf_fetch"
        /\ slots[i].answer = "none"
        /\ MatchAll(caches, slots[i].key) # None

\* C25: in every interleaving of the expiry sweep with request handling, an entry
\* that leaves the dynamic namespace was captured before the sweep's threshold; an
\* entry a write-through stored during the sweep with a newer timestamp stays.
C25_SweepSparesFreshWrites ==
    [][LET before == EntriesOf(caches, DYNAMIC_CACHE)
           after == EntriesOf(caches', DYNAMIC_CACHE)
       IN \A k \in 1..Len(before) :
             before[k].key \notin Keys(after) =>
                 OlderThan(before[k].response, sweep.oneWeekAgo)]_vars

\* C26: once the worker is activated, whatever requests, sweeps, syncs and
\* pushes it handles, every namespace of the storage is the current static or the
\* current dynamic one.
C26_OnlyCurrentNamespaces ==
    phase = "activated" => Names(caches) \subseteq {STATIC_CACHE, DYNAMIC_CACHE}

\* over a storage that held namespaces of an older generation the worker has
\* written a response through, swept and received a push
C26_Witness ==
    /\ phase = "activated"
    /\ \E k \in 1..Len(cacheNames) : cacheNames[k] = "mcp-static-v0"
    /\ Names(caches) = {STATIC_CACHE, DYNAMIC_CACHE}
    /\ \E i \in SlotIds : slots[i].put = "stored"
    /\ sweep.ran /\ sweep.pc = "idle"
    /\ pushLog # << >>

\* none of the entries was captured before t
NoneExpired(entries, t) == \A k \in 1..Len(entries) : ~OlderThan(entries[k].response, t)

\* C27: a sweep that starts after another one has run, at the same instant, finds
\* no entry older than the threshold, and a sweep that found none leaves every
\* entry of every namespace as it was.
C27_SweepIdempotent ==
    [][/\ (sweep.pc = "idle" /\ sweep.ran /\ sweep' # sweep) =>
             /\ now' = now
             /\ sweep'.oneWeekAgo = sweep.oneWeekAgo
             /\ NoneExpired(sweep'.before, sweep'.oneWeekAgo)
             /\ caches' = caches
       /\ (sweep.pc # "idle" /\ NoneExpired(sweep.before, sweep.oneWeekAgo)) =>
             caches' = caches]_vars

\* a second sweep, started after the first one deleted an entry, has reached the
\* last of the entries that remained and has changed nothing
C27_Witness ==
    /\ sweep.pc = "match"
    /\ Len(sweep.requests) = 1
    /\ Len(sweep.before) >= 2
    /\ SweepKeys[1] \notin Keys(sweep.before)
    /\ EntriesOf(caches, DYNAMIC_CACHE) = sweep.before

\* the sweep takes a step: something of it other than the last event's tag changes
SweepStep == [sweep' EXCEPT !.tag = sweep.tag] # sweep

\* the namespaces other than the dynamic one are as they were
OthersUntouched ==
    \A name \in (Names(caches) \cup Names(caches')) \ {DYNAMIC_CACHE} :
        /\ name \in Names(caches) /\ name \in Names(caches')
        /\ EntriesOf(caches', name) = EntriesOf(caches, name)

\* a sweep starts only on a periodicsync event tagged 'cache-cleanup'; an event
\* with another tag changes no cache and moves no sweep
OnlyCleanupSweeps ==
    /\ (sweep.pc = "idle" /\ SweepStep) => sweep'.tag = CleanupTag
    /\ (sweep'.tag # sweep.tag /\ sweep'.tag # CleanupTag) => (~SweepStep /\ caches' = caches)

\* C28 as stated: the sweep runs only for the 'cache-cleanup' trigger, and its steps
\* leave every entry of the static namespace and the set of existing namespaces as
\* they were.
C28_Original ==
    [][/\ OnlyCleanupSweeps
       /\ SweepStep => (OthersUntouched /\ Names(caches') = Names(caches))]_vars

\* C28 amended: the sweep runs only for the 'cache-cleanup' trigger, and its steps
\* leave every entry of the static namespace as it was and delete no namespace;
\* the one namespace a sweep can add is the dynamic one, which it creates empty
\* when it starts and the namespace does not exist.
C28_SweepTouchesDynamicOnly ==
    [][/\ OnlyCleanupSweeps
       /\ SweepStep =>
             /\ OthersUntouched
             /\ Names(caches') = Names(caches) \cup {DYNAMIC_CACHE}
             /\ DYNAMIC_CACHE \notin Names(caches) =>
                   (sweep.pc = "idle" /\ EntriesOf(caches', DYNAMIC_CACHE) = << >>)
             /\ sweep.pc # "idle" => Names(caches') = Names(caches)]_vars

\* a sweep has deleted the aged entry of a key the static namespace holds too, and
\* the static namespace still holds the whole manifest
C28_Witness ==
    /\ sweep.ran /\ sweep.pc = "idle"
    /\ sweep.before # << >>
    /\ OlderThan(sweep.before[1].response, sweep.oneWeekAgo)
    /\ sweep.before[1].key \notin Keys(EntriesOf(caches, DYNAMIC_CACHE))
    /\ sweep.before[1].key \in Keys(EntriesOf(caches, STATIC_CACHE))
    /\ Keys(EntriesOf(caches, STATIC_CACHE)) = ManifestKeys

\* activate begins in this step
ActivateBegins == phase # "activating" /\ phase' = "activating"

\* nothing but what the install of the first incarnation created is in the storage
FirstRun == incarnation = 1 /\ Names(caches) \subseteq {STATIC_CACHE}

\* activate begins only once the install has settled
AfterInstall ==
    ActivateBegins =>
        /\ phase = "installed"
        /\ addAllResult \in {"stored", "failed"}
        /\ Len(installs) = incarnation

\* an activate that began on a first run deletes nothing and can complete
FirstActivateDeletesNothing ==
    /\ (ActivateBegins /\ FirstRun) => (deleting' = {} /\ caches' = caches)
    /\ (phase = "activating" /\ incarnation = 1 /\ cacheNames = << STATIC_CACHE >>) =>
          /\ deleting = {}
          /\ caches' = caches
          /\ phase' \in {"activating", "activated"}

EntriesFor(entries, url) ==
    {entries[k] : k \in {j \in 1..Len(entries) :
                            \/ entries[j].key = url
                            \/ StartsWith(entries[j].key, url \o " accept=")}}

\* the entries for a URL in the namespaces the executor of the slot looks up
Searched(slot, url) ==
    IF slot.strategy = "staleWhileRevalidate"
    THEN EntriesFor(EntriesOf(caches, DYNAMIC_CACHE), url)
    ELSE UNION {EntriesFor(caches[n].entries, url) : n \in 1..Len(caches)}

\* C30: the cache key is the method and the URL only: a lookup made for a request
\* returns an entry stored for the request's URL, query included, whenever the
\* namespaces it searches hold one, whatever Accept header the request and the
\* request that stored the entry carried, and returns nothing otherwise, never an
\* entry of another URL.
C30_KeyIsUrlOnly ==
    [][\A i \in SlotIds :
          (slots[i].pc \in {"cf_match", "nf_match", "co_match", "swr_match"}
              /\ slots'[i].pc # slots[i].pc) =>
              LET held == Searched(slots[i], KeyOfRequest[slots[i].request])
              IN IF held = {}
                 THEN slots'[i].cachedResponse = None
                 ELSE slots'[i].cachedResponse \in {e.response : e \in held}]_vars

\* the deliveries in flight that settle in the step
DeliveriesSettling ==
    {p \in monitor.pending : p.cause.by = "delivery" /\ p \notin monitor'.pending}

\* C31: recording one telemetry event causes a bounded number of network requests:
\* the request that delivers an event to the analytics endpoint, whether it succeeds
\* or fails, causes no other event to be tracked and no other request to be sent.
C31_DeliveryTracksNothing ==
    [][DeliveriesSettling # {} =>
          /\ monitor'.tracked = monitor.tracked
          /\ monitor'.requests = monitor.requests]_vars

\* the entries the memory cache holds under a key
EntryFor(memoryCache, key) == {e \in memoryCache : e.key = key}

\* C32: the intercepted fetch answers from the memory cache only when the entry for
\* the call's key was stored less than 5 minutes ago; an entry found at or past that
\* age is removed and the request goes to the network; and only successful responses
\* of requests that are no POST are ever stored.
C32_MemoryCacheRule ==
    [][/\ monitor'.last # monitor.last =>
             LET held == EntryFor(monitor.memoryCache, monitor'.last.key)
             IN  /\ monitor'.last.kind = "cache" =>
                        \E e \in held : now - e.timestamp < cacheTimeout
                 /\ \A e \in held :
                        now - e.timestamp >= cacheTimeout =>
                            /\ EntryFor(monitor'.memoryCache, monitor'.last.key) = {}
                            /\ monitor'.last.kind = "network"
                            /\ monitor'.requests = monitor.requests + 1
       /\ \A e \in monitor'.memoryCache \ monitor.memoryCache :
             Ok(e.response) /\ e.sent # "POST"]_vars

\* C33: the strategy selected for a request is always one of networkOnly,
\* networkFirst, cacheFirst and staleWhileRevalidate: no request the listener handles
\* is classified cacheOnly, and none is ever in the hands of the cacheOnly executor.
C33_NeverCacheOnly ==
    \A i \in SlotIds :
        /\ slots[i].pc # "co_match"
        /\ slots[i].strategy \in Strategies \cup {"none"}
        /\ (slots[i].pc # "idle" /\ InterceptedOf[slots[i].request]) =>
              slots[i].strategy \in Strategies

\* a static asset answered from the cache: by cacheFirst, not by cacheOnly
C33_Witness ==
    \E i \in SlotIds :
        /\ slots[i].request \in RouterRequests
        /\ slots[i].strategy = "cacheFirst"
        /\ slots[i].pc = "done"
        /\ slots[i].answer = "cached"

\* C34: after any sequence of trackEvent calls the persisted list holds at most 1000
\* events, in arrival order, and they are the most recent ones: nothing is dropped
\* while the list fits, and when it would exceed 1000 the oldest events are dropped.
C34_KeepsMostRecent ==
    LET events == monitor.events
        kept == IF monitor.tracked < EventLimit THEN monitor.tracked ELSE EventLimit
    IN  /\ Len(events) <= EventLimit
        /\ Len(events) = kept
        /\ \A k \in 1..Len(events) : events[k].n = monitor.tracked - kept + k

\* trackEvent has run on a full list: the oldest event is gone, the newest is last
C34_Witness ==
    /\ monitor.tracked > EventLimit
    /\ Len(monitor.events) = EventLimit
    /\ monitor.events[1].n = monitor.tracked - EventLimit + 1
    /\ monitor.events[EventLimit].n = monitor.tracked

====
